---- MODULE Spec2Model ----
(***************************************************************************)
(* Model of the synthetic workspace generator (src/src/main.py and the     *)
(* generators and utilities it calls).                                     *)
(*                                                                         *)
(* Time.  A Python datetime is an integer number of ticks since a Monday   *)
(* 00:00:00; a tick is 1/TicksPerSecond of a second and stands for the     *)
(* sub-second (microsecond) part of a datetime.  A timestamp string        *)
(* "%Y-%m-%d %H:%M:%S" is the whole number of seconds it spells, a date    *)
(* (and its "%Y-%m-%d" string) is the number of its day.  None is -1.      *)
(*                                                                         *)
(* Randomness.  Every draw from the shared `random` stream is an explicit  *)
(* argument of the operator that consumes it; the actions choose the draws *)
(* with \E from the range the code draws from (or a sample of it that      *)
(* keeps the end points).  A draw random.random() is given in percent      *)
(* points, 0..99, so that `roll < 0.15` reads `roll < 15`.                  *)
(***************************************************************************)
EXTENDS Integers, Sequences, FiniteSets, TLC

VARIABLES
    \* ---- generate_tasks / generate_subtasks (tasks.py, subtasks.py)
    pc,                  \* position in the task phase of main
    simulation_end,      \* config.SIMULATION_END, "now"
    projects,            \* project records handed to generate_tasks
    project_task_counts, \* generate_tasks: tasks per project
    pidx,                \* generate_tasks: index of the project being filled
    tpos,                \* generate_tasks: i of the inner loop
    tasks,               \* list returned by generate_tasks / input of generate_subtasks
    selected,            \* generate_subtasks: tasks_with_subtasks (indices into tasks)
    cur,                 \* generate_subtasks: index into selected
    num_subtasks,        \* generate_subtasks: subtask count of the current parent
    spos,                \* generate_subtasks: i of the inner loop
    subtasks,            \* list built by generate_subtasks
    tasks_table,         \* rows handed to db.insert_many("tasks", ...)
    uuid_count,          \* number of uuid4() calls made so far
    \* ---- generate_due_date called on its own (dates.py)
    dd_pc, dd_created_at, dd_now, dd_roll, dd_days, dd_result,
    \* ---- generate_team_memberships (team_memberships.py)
    m_pc,                \* position in generate_team_memberships
    teams,               \* team records handed to generate_team_memberships
    users,               \* user records handed to generate_team_memberships
    memberships,         \* the list generate_team_memberships builds
    m_dept,              \* step 1: index of the department being placed
    m_sizes,             \* step 1: team_sizes of that department
    m_uidx,              \* step 1: user_idx
    m_home,              \* number of memberships made by step 1
    m_cross,             \* step 2: cross_functional_users (indices into users)
    m_cidx,              \* step 2: number of cross-functional users handled
    m_rt,                \* step 3: number of teams handled
    m_ids,               \* number of uuid4() calls made so far
    \* ---- the runs of main (main.py, config.py)
    run_plan,            \* what the runs are given: configuration, runs, draws
    run_pc,              \* per run: position in main
    run_now,             \* per run: config.SIMULATION_END = datetime.now()
    run_entropy,         \* per run: the entropy uuid.uuid4() reads (os.urandom)
    run_draws,           \* per run: draws taken from `random` since random.seed
    run_uuids,           \* per run: number of uuid4() calls made so far
    run_seeds,           \* per run: number of random.seed() calls made so far
    run_db,              \* per run: the rows of each table of the database
    run_lists,           \* per run: the lists main keeps of teams and projects
    \* ---- a function of the utilities or a generator called on its own
    call_pc,             \* the function being called, or "returned" / "raised"
    call_args,           \* its arguments
    call_local,          \* its local variables
    call_result          \* what it returned

varsTasks == <<pc, simulation_end, projects, project_task_counts, pidx, tpos,
               tasks, selected, cur, num_subtasks, spos, subtasks, tasks_table,
               uuid_count>>
varsDue == <<dd_pc, dd_created_at, dd_now, dd_roll, dd_days, dd_result>>
varsMem == <<m_pc, teams, users, memberships, m_dept, m_sizes, m_uidx, m_home,
             m_cross, m_cidx, m_rt, m_ids>>
varsRuns == <<run_plan, run_pc, run_now, run_entropy, run_draws, run_uuids, run_seeds,
              run_db, run_lists>>
varsCall == <<call_pc, call_args, call_local, call_result>>
vars == <<varsTasks, varsDue, varsMem, varsRuns, varsCall>>

----------------------------------------------------------------------------
(* Bounds of the model *)

TicksPerSecond == 2
MaxTasks == 1
MaxInputTasks == 2
MaxUsers == 5
MaxTeams == 2
WideTeams == 4
DueSpanDays == 15

----------------------------------------------------------------------------
(* Time *)

None == -1

Second == TicksPerSecond
Minute == 60 * Second
Hour == 60 * Minute
Day == 24 * Hour

\* datetime.date(): the calendar day of a datetime
DateOf(dt) == dt \div Day

\* datetime.weekday(): Monday = 0 ... Sunday = 6
weekday(dt) == DateOf(dt) % 7

\* utils/dates.py format_timestamp: strftime("%Y-%m-%d %H:%M:%S") drops the
\* sub-second part
format_timestamp(dt) == dt \div Second

\* datetime.strptime(s, "%Y-%m-%d %H:%M:%S")
strptime(s) == s * Second

\* utils/dates.py format_date: strftime("%Y-%m-%d") of a date
format_date(d) == d

Min(a, b) == IF a <= b THEN a ELSE b
Max(a, b) == IF a >= b THEN a ELSE b

\* config.py: the history window
HISTORY_MONTHS == 18
SIMULATION_START(now) == now - (HISTORY_MONTHS * 30) * Day
ORG_CREATED_AT(now) == SIMULATION_START(now) - 180 * Day

----------------------------------------------------------------------------
(* utils/dates.py *)

\* the range of random.randint(0, int(delta.total_seconds()))
RandomSeconds(start, end) == 0 .. ((end - start) \div Second)

\* random_date_between; random_seconds is the draw (unused when start >= end)
random_date_between(start, end, random_seconds) ==
    IF start >= end THEN start
    ELSE start + random_seconds * Second

\* the weekday loop of random_business_date.  redraws[k] is the k-th resample;
\* the coin `random.random() < 0.85` comes up true Len(redraws) times and then
\* false (or the loop stops at 10 attempts or at a weekday, whichever is first)
RECURSIVE WeekdayLoop(_, _, _, _, _)
WeekdayLoop(result, start, end, redraws, attempts) ==
    IF attempts >= 10 \/ attempts >= Len(redraws) THEN result
    ELSE IF weekday(result) < 5 THEN result
    ELSE WeekdayLoop(random_date_between(start, end, redraws[attempts + 1]),
                     start, end, redraws, attempts + 1)

\* datetime.replace(hour=, minute=): the day, the seconds and the sub-second
\* part stay
ReplaceHourMinute(dt, hour, minute) ==
    DateOf(dt) * Day + hour * Hour + minute * Minute + (dt % Minute)

\* random_business_date; adjust is `random.random() < 0.80`
random_business_date(start, end, first, redraws, adjust, hour, minute) ==
    LET result == WeekdayLoop(random_date_between(start, end, first),
                              start, end, redraws, 0)
    IN  IF adjust THEN ReplaceHourMinute(result, hour, minute) ELSE result

\* generate_due_date: the range of the day count drawn in the branch of roll
DueDays(roll) ==
    IF roll < 10 THEN {0}
    ELSE IF roll < 15 THEN 1 .. 14
    ELSE IF roll < 40 THEN 1 .. 7
    ELSE IF roll < 80 THEN 8 .. 30
    ELSE 31 .. 90

\* generate_due_date with the overdue date compared by `<` instead of `<=`
generate_due_date_strict(created_at, now, roll, days) ==
    IF roll < 10 THEN None
    ELSE IF roll < 15 THEN
        LET due == now - days * Day
        IN  IF DateOf(due) < DateOf(created_at)
            THEN DateOf(created_at + Day)
            ELSE DateOf(due)
    ELSE DateOf(created_at + days * Day)

\* generate_due_date; returns a date or None
generate_due_date(created_at, now, roll, days) ==
    IF roll < 10 THEN None
    ELSE IF roll < 15 THEN
        LET due == now - days * Day
        IN  IF DateOf(due) <= DateOf(created_at)
            THEN DateOf(created_at + Day)
            ELSE DateOf(due)
    ELSE DateOf(created_at + days * Day)

\* generate_completion_time: the range of timedelta(days=random.uniform(a, b))
CycleTime(roll) ==
    IF roll < 15 THEN (1 * Day) .. (2 * Day)
    ELSE IF roll < 55 THEN (2 * Day) .. (4 * Day)
    ELSE IF roll < 85 THEN (4 * Day) .. (7 * Day)
    ELSE IF roll < 97 THEN (7 * Day) .. (14 * Day)
    ELSE (14 * Day) .. (30 * Day)

\* generate_completion_time; cycle is the timedelta drawn in the branch of
\* roll, back_hours is randint(1, 24), fwd_hours is randint(1, 48)
generate_completion_time(created_at, now, cycle, back_hours, fwd_hours) ==
    LET c1 == created_at + cycle
        c2 == IF c1 > now THEN now - back_hours * Hour ELSE c1
    IN  IF c2 <= created_at THEN created_at + fwd_hours * Hour ELSE c2

----------------------------------------------------------------------------
(* utils/distributions.py *)

\* biased_boolean: random.random() < true_probability, both in percent points
biased_boolean(roll, true_probability) == roll < true_probability

RECURSIVE AddPicks(_, _, _)
AddPicks(result, picks, k) ==
    IF k > Len(picks) THEN result
    ELSE AddPicks([result EXCEPT ![picks[k]] = @ + 1], picks, k + 1)

\* the draws of distribute_among: one bucket index per remaining unit
\* (random.choices with weights 1/(count+1) > 0 can return any bucket)
DistributePicks(total, buckets, min_per_bucket) ==
    LET remaining == total - min_per_bucket * buckets
    IN  IF buckets <= 0 \/ remaining < 0 THEN {<< >>}
        ELSE [1 .. remaining -> 1 .. buckets]

\* distribute_among that stops after the minimums
distribute_among_nopicks(total, buckets, min_per_bucket, picks) ==
    IF buckets <= 0 THEN << >>
    ELSE LET remaining == total - min_per_bucket * buckets
         IN  IF remaining < 0
             THEN [i \in 1 .. buckets |->
                     (total \div buckets) + (IF i <= total % buckets THEN 1 ELSE 0)]
             ELSE [i \in 1 .. buckets |-> min_per_bucket]

\* distribute_among with the remaining units handed out from empty buckets
distribute_among_nomin(total, buckets, min_per_bucket, picks) ==
    IF buckets <= 0 THEN << >>
    ELSE LET remaining == total - min_per_bucket * buckets
         IN  IF remaining < 0
             THEN [i \in 1 .. buckets |->
                     (total \div buckets) + (IF i <= total % buckets THEN 1 ELSE 0)]
             ELSE AddPicks([i \in 1 .. buckets |-> 0], picks, 1)

\* distribute_among
distribute_among(total, buckets, min_per_bucket, picks) ==
    IF buckets <= 0 THEN << >>
    ELSE LET remaining == total - min_per_bucket * buckets
         IN  IF remaining < 0
             THEN [i \in 1 .. buckets |->
                     (total \div buckets) + (IF i <= total % buckets THEN 1 ELSE 0)]
             ELSE AddPicks([i \in 1 .. buckets |-> min_per_bucket], picks, 1)

\* the results of random.shuffle(xs): xs in any order
Shuffles(xs) ==
    LET n == Len(xs)
        perms == {p \in [1 .. n -> 1 .. n] : \A i, j \in 1 .. n : p[i] = p[j] => i = j}
    IN  {[i \in 1 .. n |-> xs[p[i]]] : p \in perms}

\* random.randint(a, b) of a draw in percent points: the hundred draws are
\* shared out evenly over a .. b
randint(a, b, pick) == a + ((b - a + 1) * pick) \div 100

\* subtask_count_for_task: roll is random.random() in percent points, pick
\* the draw of the randint of its branch
subtask_count_for_task(roll, pick) ==
    IF roll < 50 THEN randint(2, 3, pick)
    ELSE IF roll < 80 THEN randint(4, 5, pick)
    ELSE randint(6, 10, pick)

----------------------------------------------------------------------------
(* Samples of the draws: the end points of each range *)

EndPoints(S) == {x \in S : \A y \in S : x <= y} \cup {x \in S : \A y \in S : x >= y}
Ends(lo, hi) == IF lo <= hi THEN {lo, hi} ELSE {}

\* the seconds drawn by random_date_between(start, end)
SecondsDraws(start, end) ==
    IF start >= end THEN {0} ELSE Ends(0, (end - start) \div Second)

\* the first second random_date_between(start, end) can draw
FirstSecond(start, end) == {0}

\* random.random() and the randint of subtask_count_for_task: a draw of every
\* branch, and draws that give every count of a branch
CountRolls == {0, 50, 80}
CountPicks == {0, 20, 40, 60, 80, 99}

\* the draws of subtask i of num_subtasks: both ends of the range for the
\* first two subtasks; after them the first second, and for the roll both
\* ends at the last subtask, 0 at an even and 0.99 at an odd position between
SubtaskSeconds(i, start, end) ==
    IF i < 2 THEN SecondsDraws(start, end) ELSE FirstSecond(start, end)
SubtaskRolls(i, n) ==
    IF i < 2 \/ i = n - 1 THEN Ends(0, 99) ELSE IF i % 2 = 0 THEN {0} ELSE {99}

\* the last second random_date_between(start, end) can draw
LastSecond(start, end) ==
    IF start >= end THEN {0} ELSE {(end - start) \div Second}

\* random.randint(9, 17) and random.randint(0, 59) of random_business_date:
\* the earliest and the latest time of day
HourMinuteDraws == {<<9, 0>>, <<17, 59>>}

\* random.random(), in the first branch of generate_completion_time
CycleRolls == {0}
CycleDraws(roll) ==
    LET lohi == IF roll < 15 THEN <<1, 2>>
                ELSE IF roll < 55 THEN <<2, 4>>
                ELSE IF roll < 85 THEN <<4, 7>>
                ELSE IF roll < 97 THEN <<7, 14>>
                ELSE <<14, 30>>
    IN  {lohi[1] * Day, lohi[2] * Day}

\* random.random(), in the first three branches of generate_due_date, and the
\* smallest day count of the branch
DueRolls == {0, 10, 15}
DueDraws(roll) == {d \in DueDays(roll) : \A e \in DueDays(roll) : d <= e}

----------------------------------------------------------------------------
(* The inputs of the task phase *)

\* config.SIMULATION_END = datetime.now(): a Saturday noon, on the second and
\* one tick after it
NowChoices == {(105 * 7 + 5) * Day + 12 * Hour, (105 * 7 + 5) * Day + 12 * Hour + 1}

\* generate_projects: created_at of a project, as stored.  Every team is created
\* by ORG_CREATED_AT + 180 days = SIMULATION_START, so the project is drawn from
\* [SIMULATION_START, SIMULATION_END - 7 days]
ProjectCreatedChoices(now) ==
    {format_timestamp(random_date_between(SIMULATION_START(now), now - 7 * Day, s)) :
        s \in SecondsDraws(SIMULATION_START(now), now - 7 * Day)}

\* uuid.uuid4(): the n-th identifier of the run
uuid4(n) == n

\* the project records generate_tasks reads
ProjectLists(now) ==
    {<<[id |-> uuid4(1), created_at |-> c]>> : c \in ProjectCreatedChoices(now)}

----------------------------------------------------------------------------
(* generators/tasks.py *)

\* generate_task: the record of a task
generate_task(id, project_id, created_at, due_date, completed, completed_at, position, parent_task_id) ==
    [id |-> id,
     project_id |-> project_id,
     parent_task_id |-> parent_task_id,
     due_date |-> IF due_date # None THEN format_date(due_date) ELSE None,
     created_at |-> format_timestamp(created_at),
     completed |-> IF completed THEN 1 ELSE 0,
     completed_at |-> IF completed_at # None THEN format_timestamp(completed_at) ELSE None,
     position |-> position]

\* generate_tasks, up to the loop over the projects: the task counts
StartTasks ==
    /\ pc = "generate_tasks"
    /\ \E num_tasks \in 0 .. MaxTasks :
       \E picks \in DistributePicks(num_tasks, Len(projects), 5) :
       \E shuffled \in Shuffles(distribute_among(num_tasks, Len(projects), 5, picks)) :
            project_task_counts' = shuffled
    /\ pidx' = 1
    /\ tpos' = 0
    /\ pc' = "tasks_loop"
    /\ UNCHANGED <<simulation_end, projects, tasks, selected, cur, num_subtasks,
                   spos, subtasks, tasks_table, uuid_count>>

\* one iteration of `for i in range(task_count)` of generate_tasks
TaskOf(project, now, i, id, first, redraws, adjust, hour, minute, done_roll, completion_rate, cycle, back_hours, fwd_hours, due_roll, due_days) ==
    LET project_created == strptime(project.created_at)
        created_at == random_business_date(
                          Max(project_created, SIMULATION_START(now)),
                          now - Hour, first, redraws, adjust, hour, minute)
        completed == biased_boolean(done_roll, completion_rate)
        completed_at == IF completed
                        THEN generate_completion_time(created_at, now, cycle,
                                                      back_hours, fwd_hours)
                        ELSE None
        due_date == generate_due_date(created_at, now, due_roll, due_days)
    IN  generate_task(id, project.id, created_at, due_date, completed,
                      completed_at, i, None)

GenerateTask ==
    /\ pc = "tasks_loop"
    /\ pidx <= Len(projects)
    /\ tpos < project_task_counts[pidx]
    /\ LET project == projects[pidx]
           start == Max(strptime(project.created_at), SIMULATION_START(simulation_end))
           end == simulation_end - Hour
       IN  \E first \in SecondsDraws(start, end) :
           \E redraws \in {<< >>} \cup {<<s>> : s \in SecondsDraws(start, end)} :
           \E adjust \in BOOLEAN :
           \E hm \in IF adjust THEN HourMinuteDraws ELSE {<<17, 59>>} :
           \E completion_rate \in Ends(40, 95) :
           \E done_roll \in Ends(0, 99) :
           \E cycle_roll \in IF done_roll < completion_rate THEN CycleRolls ELSE {0} :
           \E cycle \in IF done_roll < completion_rate
                        THEN CycleDraws(cycle_roll) ELSE {Day} :
           \E back_hours \in IF done_roll < completion_rate THEN Ends(1, 24) ELSE {1} :
           \E fwd_hours \in IF done_roll < completion_rate THEN Ends(1, 48) ELSE {1} :
           \E due_roll \in DueRolls :
           \E due_days \in DueDraws(due_roll) :
                tasks' = Append(tasks,
                    TaskOf(project, simulation_end, tpos, uuid4(uuid_count + 1),
                           first, redraws, adjust, hm[1], hm[2], done_roll,
                           completion_rate, cycle, back_hours, fwd_hours,
                           due_roll, due_days))
    /\ uuid_count' = uuid_count + 1
    /\ tpos' = tpos + 1
    /\ UNCHANGED <<pc, simulation_end, projects, project_task_counts, pidx,
                   selected, cur, num_subtasks, spos, subtasks, tasks_table>>

\* `for project, task_count in zip(projects, project_task_counts)`: the next
\* project
NextProject ==
    /\ pc = "tasks_loop"
    /\ pidx <= Len(projects)
    /\ tpos = project_task_counts[pidx]
    /\ pidx' = pidx + 1
    /\ tpos' = 0
    /\ UNCHANGED <<pc, simulation_end, projects, project_task_counts, tasks,
                   selected, cur, num_subtasks, spos, subtasks, tasks_table,
                   uuid_count>>

\* generate_tasks returns; main hands the tasks to db.insert_many("tasks", tasks)
InsertTasks ==
    /\ pc = "tasks_loop"
    /\ pidx > Len(projects)
    /\ tasks_table' = tasks_table \o tasks
    /\ pc' = "generate_subtasks"
    /\ UNCHANGED <<simulation_end, projects, project_task_counts, pidx, tpos,
                   tasks, selected, cur, num_subtasks, spos, subtasks, uuid_count>>

----------------------------------------------------------------------------
(* generators/subtasks.py *)

\* generate_subtask with completed_at inherited from the parent, as due_date is
generate_subtask_inherit(id, parent_task, position, created_at, completed, completed_at) ==
    [id |-> id,
     project_id |-> parent_task.project_id,
     parent_task_id |-> parent_task.id,
     due_date |-> parent_task.due_date,
     created_at |-> format_timestamp(created_at),
     completed |-> IF completed THEN 1 ELSE 0,
     completed_at |-> parent_task.completed_at,
     position |-> position]

\* generate_subtask: the record of a subtask; most fields come from the parent
generate_subtask(id, parent_task, position, created_at, completed, completed_at) ==
    [id |-> id,
     project_id |-> parent_task.project_id,
     parent_task_id |-> parent_task.id,
     due_date |-> parent_task.due_date,
     created_at |-> format_timestamp(created_at),
     completed |-> IF completed THEN 1 ELSE 0,
     completed_at |-> IF completed_at # None THEN format_timestamp(completed_at) ELSE None,
     position |-> position]

\* parent_tasks without the filter: every task of the input
ParentTaskIndices_all(ts) == 1 .. Len(ts)

\* parent_tasks = [t for t in tasks if t.get("parent_task_id") is None],
\* as indices into tasks
ParentTaskIndices(ts) == {k \in 1 .. Len(ts) : ts[k].parent_task_id = None}

\* the elements of a set of indices in ascending order
RECURSIVE Ascending(_)
Ascending(S) ==
    IF S = {} THEN << >>
    ELSE LET least == CHOOSE x \in S : \A y \in S : x <= y
         IN  <<least>> \o Ascending(S \ {least})

\* generate_subtasks, up to the loop over the parents: biased_boolean(subtask_rate)
\* keeps any part of the parent tasks, in their order
SelectParents ==
    /\ pc = "generate_subtasks"
    /\ \E chosen \in SUBSET ParentTaskIndices(tasks) :
            selected' = Ascending(chosen)
    /\ cur' = 0
    /\ num_subtasks' = 0
    /\ spos' = 0
    /\ pc' = "subtasks_loop"
    /\ UNCHANGED <<simulation_end, projects, project_task_counts, pidx, tpos,
                   tasks, subtasks, tasks_table, uuid_count>>

\* `for parent in tasks_with_subtasks`: the next parent and its subtask count
NextParent ==
    /\ pc = "subtasks_loop"
    /\ spos = num_subtasks
    /\ cur < Len(selected)
    /\ cur' = cur + 1
    /\ \E roll \in CountRolls, pick \in CountPicks :
            num_subtasks' = subtask_count_for_task(roll, pick)
    /\ spos' = 0
    /\ UNCHANGED <<pc, simulation_end, projects, project_task_counts, pidx, tpos,
                   tasks, selected, subtasks, tasks_table, uuid_count>>

\* the creation time of a subtask
SubtaskCreated(parent, created_seconds) ==
    LET parent_created == strptime(parent.created_at)
    IN  random_date_between(parent_created, parent_created + 2 * Day, created_seconds)

\* 0.3 + (i * 0.1) of a subtask whose parent is open, in percent points as
\* a draw in percent points compares with it: the floats of i = 3 and i = 6
\* are 0.6000000000000001 and 0.9000000000000001, above a draw of 0.60 and
\* of 0.90
OpenSubtaskRate(i) == IF i \in {3, 6} THEN 31 + i * 10 ELSE 30 + i * 10

\* the completion of subtask i: <<subtask_completed, subtask_completed_at>>
SubtaskCompletion(parent, now, i, subtask_created, done_roll, completed_seconds) ==
    LET parent_completed == parent.completed # 0
        parent_completed_at == IF parent.completed_at # None
                               THEN strptime(parent.completed_at) ELSE None
    IN  IF parent_completed
        THEN IF biased_boolean(done_roll, 90 - i * 5) /\ parent_completed_at # None
             THEN <<TRUE, random_date_between(subtask_created, parent_completed_at,
                                              completed_seconds)>>
             ELSE <<FALSE, None>>
        ELSE IF biased_boolean(done_roll, OpenSubtaskRate(i))
             THEN <<TRUE, random_date_between(subtask_created, now, completed_seconds)>>
             ELSE <<FALSE, None>>

\* the end of the range the completion time of a subtask is drawn from
SubtaskCompletionEnd(parent, now) ==
    IF parent.completed # 0 /\ parent.completed_at # None
    THEN strptime(parent.completed_at) ELSE now

\* one iteration of `for i in range(num_subtasks)` of generate_subtasks
SubtaskOf(parent, now, i, id, created_seconds, done_roll, completed_seconds) ==
    LET subtask_created == SubtaskCreated(parent, created_seconds)
        completion == SubtaskCompletion(parent, now, i, subtask_created, done_roll,
                                        completed_seconds)
    IN  generate_subtask(id, parent, i, subtask_created, completion[1], completion[2])

GenerateSubtask ==
    /\ pc = "subtasks_loop"
    /\ spos < num_subtasks
    /\ LET parent == tasks[selected[cur]]
           parent_created == strptime(parent.created_at)
       IN  \E created_seconds \in SubtaskSeconds(spos, parent_created,
                                                  parent_created + 2 * Day) :
           \E done_roll \in SubtaskRolls(spos, num_subtasks) :
           \E completed_seconds \in
                LastSecond(SubtaskCreated(parent, created_seconds),
                           SubtaskCompletionEnd(parent, simulation_end)) :
                subtasks' = Append(subtasks,
                    SubtaskOf(parent, simulation_end, spos, uuid4(uuid_count + 1),
                              created_seconds, done_roll, completed_seconds))
    /\ uuid_count' = uuid_count + 1
    /\ spos' = spos + 1
    /\ UNCHANGED <<pc, simulation_end, projects, project_task_counts, pidx, tpos,
                   tasks, selected, cur, num_subtasks, tasks_table>>

\* generate_subtasks returns; main hands the subtasks to
\* db.insert_many("tasks", subtasks)
InsertSubtasks ==
    /\ pc = "subtasks_loop"
    /\ spos = num_subtasks
    /\ cur = Len(selected)
    /\ tasks_table' = tasks_table \o subtasks
    /\ pc' = "done"
    /\ UNCHANGED <<simulation_end, projects, project_task_counts, pidx, tpos,
                   tasks, selected, cur, num_subtasks, spos, subtasks, uuid_count>>

----------------------------------------------------------------------------
(* The task phase of main: generate_tasks, then generate_subtasks *)

IdleTasks ==
    /\ pc = "idle"
    /\ simulation_end = 0
    /\ projects = << >>
    /\ project_task_counts = << >>
    /\ pidx = 0
    /\ tpos = 0
    /\ tasks = << >>
    /\ selected = << >>
    /\ cur = 0
    /\ num_subtasks = 0
    /\ spos = 0
    /\ subtasks = << >>
    /\ tasks_table = << >>
    /\ uuid_count = 0

IdleMem ==
    /\ m_pc = "idle"
    /\ teams = << >>
    /\ users = << >>
    /\ memberships = << >>
    /\ m_dept = 0
    /\ m_sizes = << >>
    /\ m_uidx = 0
    /\ m_home = 0
    /\ m_cross = << >>
    /\ m_cidx = 0
    /\ m_rt = 0
    /\ m_ids = 0

IdleDue ==
    /\ dd_pc = "idle"
    /\ dd_created_at = 0
    /\ dd_now = 0
    /\ dd_roll = 0
    /\ dd_days = 0
    /\ dd_result = None

\* the processes that run main, and the tables main fills
Runs == {1, 2}
Tables == {"organizations", "teams", "users", "team_memberships", "projects",
           "sections", "tasks", "comments", "custom_field_definitions",
           "custom_field_values", "tags", "task_tags"}

\* no run has started
NoRun ==
    /\ run_pc = [r \in Runs |-> "idle"]
    /\ run_now = [r \in Runs |-> 0]
    /\ run_entropy = [r \in Runs |-> 0]
    /\ run_draws = [r \in Runs |-> None]
    /\ run_uuids = [r \in Runs |-> 0]
    /\ run_seeds = [r \in Runs |-> 0]
    /\ run_db = [r \in Runs |-> [t \in Tables |-> << >>]]
    /\ run_lists = [r \in Runs |-> [teams |-> << >>, projects |-> << >>]]

IdleRuns == run_plan = None /\ NoRun

IdleCall ==
    /\ call_pc = "idle"
    /\ call_args = << >>
    /\ call_local = << >>
    /\ call_result = None

\* the other variables, for a specification that calls one function
IdleOthers == IdleTasks /\ IdleDue /\ IdleMem /\ IdleRuns
varsOthers == <<varsTasks, varsDue, varsMem, varsRuns>>

InitTasks ==
    /\ pc = "generate_tasks"
    /\ simulation_end \in NowChoices
    /\ projects \in ProjectLists(simulation_end)
    /\ project_task_counts = << >>
    /\ pidx = 0
    /\ tpos = 0
    /\ tasks = << >>
    /\ selected = << >>
    /\ cur = 0
    /\ num_subtasks = 0
    /\ spos = 0
    /\ subtasks = << >>
    /\ tasks_table = << >>
    /\ uuid_count = 1

Init == InitTasks /\ IdleDue /\ IdleMem /\ IdleRuns /\ IdleCall

Next ==
    \/ (StartTasks /\ UNCHANGED <<varsDue, varsMem, varsRuns, varsCall>>)
    \/ (GenerateTask /\ UNCHANGED <<varsDue, varsMem, varsRuns, varsCall>>)
    \/ (NextProject /\ UNCHANGED <<varsDue, varsMem, varsRuns, varsCall>>)
    \/ (InsertTasks /\ UNCHANGED <<varsDue, varsMem, varsRuns, varsCall>>)
    \/ (SelectParents /\ UNCHANGED <<varsDue, varsMem, varsRuns, varsCall>>)
    \/ (NextParent /\ UNCHANGED <<varsDue, varsMem, varsRuns, varsCall>>)
    \/ (GenerateSubtask /\ UNCHANGED <<varsDue, varsMem, varsRuns, varsCall>>)
    \/ (InsertSubtasks /\ UNCHANGED <<varsDue, varsMem, varsRuns, varsCall>>)

Spec == Init /\ [][Next]_vars

----------------------------------------------------------------------------
(* Claims about the task records *)

ParentOf(st) == CHOOSE t \in {tasks[k] : k \in 1 .. Len(tasks)} : t.id = st.parent_task_id

\* C2: every parent task returned by generate_tasks with completed = 1 has a
\* completed_at that is not later than simulation_end (now).
C2_CompletedAtNotAfterNow ==
    \A k \in 1 .. Len(tasks) :
        tasks[k].completed = 1 => strptime(tasks[k].completed_at) <= simulation_end

\* C22: every parent task returned by generate_tasks has a created_at that is
\* not earlier than the created_at of its project.
C22_TaskCreatedNotBeforeProject ==
    \A k \in 1 .. Len(tasks) :
        \A p \in 1 .. Len(projects) :
            tasks[k].project_id = projects[p].id =>
                tasks[k].created_at >= projects[p].created_at

\* C3: every parent task returned by generate_tasks with completed = 1 has a
\* stored completed_at strictly later than its stored created_at.
C3_CompletedAtAfterCreatedAt ==
    \A k \in 1 .. Len(tasks) :
        tasks[k].completed = 1 => tasks[k].completed_at > tasks[k].created_at

\* C4: in every row handed to the tasks table, and in every record of the two
\* generators, completed_at is set if and only if completed = 1.
C4_CompletedAtIffCompleted ==
    /\ \A k \in 1 .. Len(tasks_table) :
            (tasks_table[k].completed_at # None) <=> (tasks_table[k].completed = 1)
    /\ \A k \in 1 .. Len(tasks) :
            (tasks[k].completed_at # None) <=> (tasks[k].completed = 1)
    /\ \A k \in 1 .. Len(subtasks) :
            (subtasks[k].completed_at # None) <=> (subtasks[k].completed = 1)

\* C4 witness: the run is over and the table holds an open parent task without
\* completed_at, its tenth subtask completed with completed_at and another of
\* its subtasks after the second open without completed_at.
C4_Witness ==
    /\ pc = "done"
    /\ \E k \in 1 .. Len(tasks_table) :
            /\ tasks_table[k].parent_task_id = None
            /\ tasks_table[k].completed = 0
            /\ tasks_table[k].completed_at = None
    /\ \E k \in 1 .. Len(tasks_table) :
            /\ tasks_table[k].parent_task_id # None
            /\ tasks_table[k].position = 9
            /\ tasks_table[k].completed = 1
            /\ tasks_table[k].completed_at # None
    /\ \E k \in 1 .. Len(tasks_table) :
            /\ tasks_table[k].parent_task_id # None
            /\ tasks_table[k].position >= 2
            /\ tasks_table[k].completed = 0
            /\ tasks_table[k].completed_at = None

\* C6: every subtask with a due_date has a due_date strictly later than the
\* calendar date of its own created_at.
C6_SubtaskDueDateAfterCreatedAt ==
    \A k \in 1 .. Len(subtasks) :
        subtasks[k].due_date # None =>
            subtasks[k].due_date > DateOf(strptime(subtasks[k].created_at))

\* C8: every completed subtask of a completed parent has a completed_at
\* strictly earlier than the completed_at of the parent.
C8_SubtaskCompletedBeforeParent ==
    \A k \in 1 .. Len(subtasks) :
        (subtasks[k].completed = 1 /\ ParentOf(subtasks[k]).completed = 1) =>
            subtasks[k].completed_at < ParentOf(subtasks[k]).completed_at

----------------------------------------------------------------------------
(* generate_subtasks called on a list that already holds subtasks *)

\* a parent task as generate_tasks returns it: open, or completed after the
\* shortest cycle
InputParent(now, id, done) ==
    TaskOf([id |-> uuid4(1), created_at |-> format_timestamp(SIMULATION_START(now))],
           now, 0, id, 0, << >>, FALSE, 9, 0, IF done THEN 0 ELSE 99, 40,
           Day, 1, 1, 15, 1)

\* a subtask as generate_subtasks returns it
InputSubtask(now, id, parent) == SubtaskOf(parent, now, 0, id, 0, 0, 0)

\* the lists of at most MaxInputTasks records: the record at position k has the
\* k-th identifier after the project's; a subtask belongs to the first record
\* when that is a parent task, and to a task outside the list otherwise
InputTaskLists(now) ==
    LET outside == InputParent(now, uuid4(MaxInputTasks + 2), TRUE)
        first(kinds) == InputParent(now, uuid4(2), kinds[1] = "done")
        rec(kinds, k) ==
            IF kinds[k] # "sub" THEN InputParent(now, uuid4(k + 1), kinds[k] = "done")
            ELSE IF k > 1 /\ kinds[1] # "sub"
                 THEN InputSubtask(now, uuid4(k + 1), first(kinds))
                 ELSE InputSubtask(now, uuid4(k + 1), outside)
    IN  UNION {{[k \in 1 .. n |-> rec(kinds, k)] :
                    kinds \in [1 .. n -> {"open", "done", "sub"}]} :
               n \in 1 .. MaxInputTasks}

InitSubtasksInput ==
    /\ pc = "generate_subtasks"
    /\ simulation_end \in NowChoices
    /\ projects = << >>
    /\ project_task_counts = << >>
    /\ pidx = 0
    /\ tpos = 0
    /\ tasks \in InputTaskLists(simulation_end)
    /\ selected = << >>
    /\ cur = 0
    /\ num_subtasks = 0
    /\ spos = 0
    /\ subtasks = << >>
    /\ tasks_table = << >>
    /\ uuid_count = MaxInputTasks + 2
    /\ IdleDue
    /\ IdleMem
    /\ IdleRuns
    /\ IdleCall

NextSubtasksInput ==
    \/ (SelectParents /\ UNCHANGED <<varsDue, varsMem, varsRuns, varsCall>>)
    \/ (NextParent /\ UNCHANGED <<varsDue, varsMem, varsRuns, varsCall>>)
    \/ (GenerateSubtask /\ UNCHANGED <<varsDue, varsMem, varsRuns, varsCall>>)
    \/ (InsertSubtasks /\ UNCHANGED <<varsDue, varsMem, varsRuns, varsCall>>)

SpecSubtasksInput == InitSubtasksInput /\ [][NextSubtasksInput]_vars

\* C7: the parent_task_id of every generated subtask is the id of a task of the
\* input whose own parent_task_id is null, also when the input holds subtasks.
C7_SubtaskParentIsTopLevel ==
    \A k \in 1 .. Len(subtasks) :
        \E j \in 1 .. Len(tasks) :
            /\ tasks[j].id = subtasks[k].parent_task_id
            /\ tasks[j].parent_task_id = None

\* C7 witness: generate_subtasks has returned subtasks for an input that holds
\* a subtask next to a parent task.
C7_Witness ==
    /\ pc = "done"
    /\ Len(subtasks) > 0
    /\ \E j \in 1 .. Len(tasks) : tasks[j].parent_task_id # None

----------------------------------------------------------------------------
(* generate_due_date called on its own *)

\* created_at: the first tick, the second tick and the last tick of a day
DueCreatedChoices == {740 * Day, 740 * Day + 1, 741 * Day - 1}

\* now: from two days before created_at to DueSpanDays days after it, at the
\* first, the second and the last tick of the day
DueNowChoices ==
    {(738 + d) * Day + o : d \in 0 .. (DueSpanDays + 2), o \in {0, 1, Day - 1}}

\* random.random(): the first and the last value of each branch
DueRollChoices == {0, 9, 10, 14, 15, 39, 40, 79, 80, 99}

InitDue ==
    /\ dd_pc = "call"
    /\ dd_created_at \in DueCreatedChoices
    /\ dd_now \in DueNowChoices
    /\ dd_roll = 0
    /\ dd_days = 0
    /\ dd_result = None
    /\ IdleTasks
    /\ IdleMem
    /\ IdleRuns
    /\ IdleCall

\* a call generate_due_date(created_at, now=now)
CallGenerateDueDate ==
    /\ dd_pc = "call"
    /\ \E roll \in DueRollChoices :
       \E days \in DueDays(roll) :
            /\ dd_roll' = roll
            /\ dd_days' = days
            /\ dd_result' = generate_due_date(dd_created_at, dd_now, roll, days)
    /\ dd_pc' = "returned"
    /\ UNCHANGED <<dd_created_at, dd_now>>

NextDue == CallGenerateDueDate /\ UNCHANGED <<varsTasks, varsMem, varsRuns, varsCall>>

SpecDue == InitDue /\ [][NextDue]_vars

\* C5: generate_due_date returns None or a date strictly later than the
\* calendar date of created_at, for every created_at and every now.
C5_DueDateAfterCreatedAt ==
    dd_pc = "returned" =>
        (dd_result = None \/ dd_result > DateOf(dd_created_at))

\* C5 witness: the overdue branch has returned a date although now is not
\* after created_at.
C5_Witness ==
    /\ dd_pc = "returned"
    /\ dd_roll >= 10
    /\ dd_roll < 15
    /\ dd_now <= dd_created_at
    /\ dd_result # None

----------------------------------------------------------------------------
(* generators/team_memberships.py *)

\* the defaults of generate_team_memberships
min_team_size == 8

\* a sequence that is given by a rule, as the list of its values
Listed(q) == q \o << >>

Sum(q) ==
    LET RECURSIVE Add(_, _)
        Add(low, high) ==
            IF low > high THEN 0
            ELSE IF low = high THEN q[low]
            ELSE Add(low, (low + high) \div 2) + Add((low + high) \div 2 + 1, high)
    IN  Add(1, Len(q))

\* the keys of users_by_dept, in the order the departments first appear
RECURSIVE DeptOrderFrom(_, _, _)
DeptOrderFrom(us, k, seen) ==
    IF k > Len(us) THEN << >>
    ELSE IF us[k].department \in seen THEN DeptOrderFrom(us, k + 1, seen)
    ELSE <<us[k].department>> \o DeptOrderFrom(us, k + 1, seen \cup {us[k].department})
DeptOrder(us) == DeptOrderFrom(us, 1, {})

\* users_by_dept[dept], as indices into users
DeptUsers(us, dept) ==
    Ascending({k \in 1 .. Len(us) : us[k].department = dept})

\* teams_by_dept.get(dept, []), or every team when the department has none,
\* as indices into teams
DeptTeams(ts, dept) ==
    LET own == Ascending({k \in 1 .. Len(ts) : ts[k].department = dept})
    IN  IF own = << >> THEN [k \in 1 .. Len(ts) |-> k] ELSE own

\* min_per_bucket of the department's distribute_among call
DeptMinimum(dept_users, dept_teams) ==
    IF dept_teams # << >>
    THEN Min(min_team_size, Len(dept_users) \div Len(dept_teams))
    ELSE 0

\* the position in zip(dept_teams, team_sizes) that takes the n-th user of the
\* department
RECURSIVE TeamSlot(_, _, _)
TeamSlot(sizes, n, k) ==
    IF n <= sizes[k] THEN k ELSE TeamSlot(sizes, n - sizes[k], k + 1)

\* join_start with the creation of the team alone
JoinStart_team(team, user) == strptime(team.created_at)

\* join_start = max(team_created, user_created)
JoinStart(team, user) == Max(strptime(team.created_at), strptime(user.created_at))

\* generate_team_membership: the record of a membership
generate_team_membership(id, team_id, user_id, role, joined_at) ==
    [id |-> id,
     team_id |-> team_id,
     user_id |-> user_id,
     role |-> role,
     joined_at |-> format_timestamp(joined_at)]

IsSenior(user) == user.role \in {"senior", "lead"}

\* the leads team_members[team_id] holds so far
LeadsOf(mems, team_id) ==
    Cardinality({k \in 1 .. Len(mems) : mems[k].team_id = team_id /\ mems[k].role = "lead"})

\* step 1, `for dept, dept_users in users_by_dept.items()`: the next department
\* and its team sizes
StartDept ==
    /\ m_pc = "home"
    /\ m_uidx = Sum(m_sizes)
    /\ m_dept < Len(DeptOrder(users))
    /\ LET dept == DeptOrder(users)[m_dept + 1]
           dept_users == DeptUsers(users, dept)
           dept_teams == DeptTeams(teams, dept)
           minimum == DeptMinimum(dept_users, dept_teams)
       IN  \E picks \in DistributePicks(Len(dept_users), Len(dept_teams), minimum) :
                m_sizes' = distribute_among(Len(dept_users), Len(dept_teams),
                                            minimum, picks)
    /\ m_dept' = m_dept + 1
    /\ m_uidx' = 0
    /\ UNCHANGED <<m_pc, teams, users, memberships, m_home, m_cross, m_cidx, m_rt,
                   m_ids>>

\* step 1, one iteration of `for _ in range(size)`: the next user of the
\* department joins the team that has room
AssignHome ==
    /\ m_pc = "home"
    /\ m_dept >= 1
    /\ m_uidx < Sum(m_sizes)
    /\ LET dept == DeptOrder(users)[m_dept]
           dept_users == DeptUsers(users, dept)
           dept_teams == DeptTeams(teams, dept)
           user == users[dept_users[m_uidx + 1]]
           team == teams[dept_teams[TeamSlot(m_sizes, m_uidx + 1, 1)]]
           join_start == JoinStart(team, user)
       IN  \E seconds \in FirstSecond(join_start, join_start + 30 * Day) :
           \E lead_roll \in IF IsSenior(user) /\ LeadsOf(memberships, team.id) < 2
                           THEN Ends(0, 99) ELSE {99} :
                LET is_lead == /\ IsSenior(user)
                               /\ LeadsOf(memberships, team.id) < 2
                               /\ lead_roll < 30
                IN  memberships' = Append(memberships,
                        generate_team_membership(
                            uuid4(m_ids + 1), team.id, user.id,
                            IF is_lead THEN "lead" ELSE "member",
                            random_date_between(join_start, join_start + 30 * Day,
                                                seconds)))
    /\ m_uidx' = m_uidx + 1
    /\ m_ids' = m_ids + 1
    /\ UNCHANGED <<m_pc, teams, users, m_dept, m_sizes, m_home, m_cross, m_cidx, m_rt>>

\* the results of random.sample(population, k): k different elements in any order
Samples(population, k) ==
    {q \in [1 .. k -> population] : \A i, j \in 1 .. k : q[i] = q[j] => i = j}

\* active_users = [u for u in users if u["is_active"]], as indices into users
ActiveUsers(us) == {k \in 1 .. Len(us) : us[k].is_active # 0}

\* k of the cross-functional sample: min(len(active), int(len(active) * 0.2))
CrossCount(n) == Min(n, n \div 5)

\* step 2 up to its loop: the cross-functional users are drawn
StartCross ==
    /\ m_pc = "home"
    /\ m_dept = Len(DeptOrder(users))
    /\ m_uidx = Sum(m_sizes)
    /\ \E sample \in Samples(ActiveUsers(users),
                             CrossCount(Cardinality(ActiveUsers(users)))) :
            m_cross' = sample
    /\ m_home' = Len(memberships)
    /\ m_cidx' = 0
    /\ m_pc' = "cross"
    /\ UNCHANGED <<teams, users, memberships, m_dept, m_sizes, m_uidx, m_rt, m_ids>>

\* user_team_count[user_id]
UserTeamCount(mems, user_id) ==
    Cardinality({k \in 1 .. Len(mems) : mems[k].user_id = user_id})

\* other_teams without the filter on the teams the user is already in
OtherTeams_any(ts, mems, user_id) == 1 .. Len(ts)

\* other_teams of step 2: the teams the user is not a member of, as indices
OtherTeams(ts, mems, user_id) ==
    {t \in 1 .. Len(ts) :
        \A k \in 1 .. Len(mems) :
            mems[k].user_id = user_id => mems[k].team_id # ts[t].id}

\* the memberships step 2 adds for one user; extra_teams are indices into teams
RECURSIVE CrossMemberships(_, _, _, _, _)
CrossMemberships(user, extra_teams, seconds, ids, k) ==
    IF k > Len(extra_teams) THEN << >>
    ELSE LET team == teams[extra_teams[k]]
             join_start == JoinStart(team, user)
         IN  <<generate_team_membership(
                   uuid4(ids + k), team.id, user.id, "member",
                   random_date_between(join_start, join_start + 90 * Day, seconds[k]))>>
             \o CrossMemberships(user, extra_teams, seconds, ids, k + 1)

\* step 2, one iteration of `for user in cross_functional_users`
CrossUser ==
    /\ m_pc = "cross"
    /\ m_cidx < Len(m_cross)
    /\ LET user == users[m_cross[m_cidx + 1]]
           other_teams == OtherTeams(teams, memberships, user.id)
       IN  IF UserTeamCount(memberships, user.id) >= 3 \/ other_teams = {}
           THEN UNCHANGED <<memberships, m_ids>>
           ELSE \E wanted \in 1 .. 2 :
                \E extra_teams \in Samples(other_teams,
                                           Min(Cardinality(other_teams), wanted)) :
                \E seconds \in [1 .. Len(extra_teams) -> Ends(0, 90 * 86400)] :
                    /\ memberships' = memberships \o
                            CrossMemberships(user, extra_teams, seconds, m_ids, 1)
                    /\ m_ids' = m_ids + Len(extra_teams)
    /\ m_cidx' = m_cidx + 1
    /\ UNCHANGED <<m_pc, teams, users, m_dept, m_sizes, m_uidx, m_home, m_cross, m_rt>>

\* the indices of the memberships of a team, in ascending order
TeamMems(mems, team_id) ==
    Ascending({k \in 1 .. Len(mems) : mems[k].team_id = team_id})

\* the user record of a membership
UserOf(us, m) == CHOOSE u \in {us[k] : k \in 1 .. Len(us)} : u.id = m.user_id

\* the first membership of team_mems whose user has a senior or lead role, or 0
RECURSIVE FirstSenior(_, _, _, _)
FirstSenior(mems, us, team_mems, k) ==
    IF k > Len(team_mems) THEN 0
    ELSE IF IsSenior(UserOf(us, mems[team_mems[k]])) THEN team_mems[k]
    ELSE FirstSenior(mems, us, team_mems, k + 1)

\* step 3 for one team without the search for a senior member: the first
\* member is promoted
RepairTeam_first(mems, us, team) ==
    LET team_mems == TeamMems(mems, team.id)
        has_lead == \E k \in 1 .. Len(team_mems) : mems[team_mems[k]].role = "lead"
    IN  IF ~has_lead /\ team_mems # << >>
        THEN [mems EXCEPT ![team_mems[1]].role = "lead"]
        ELSE mems

\* step 3 for one team: the memberships after the repair
RepairTeam(mems, us, team) ==
    LET team_mems == TeamMems(mems, team.id)
        has_lead == \E k \in 1 .. Len(team_mems) : mems[team_mems[k]].role = "lead"
        senior == FirstSenior(mems, us, team_mems, 1)
    IN  IF ~has_lead /\ team_mems # << >>
        THEN IF senior # 0
             THEN [mems EXCEPT ![senior].role = "lead"]
             ELSE [mems EXCEPT ![team_mems[1]].role = "lead"]
        ELSE mems

\* step 3, one iteration of `for team in teams`
RepairStep ==
    /\ m_pc = "cross"
    /\ m_cidx = Len(m_cross)
    /\ m_rt < Len(teams)
    /\ memberships' = RepairTeam(memberships, users, teams[m_rt + 1])
    /\ m_rt' = m_rt + 1
    /\ UNCHANGED <<m_pc, teams, users, m_dept, m_sizes, m_uidx, m_home, m_cross,
                   m_cidx, m_ids>>

\* generate_team_memberships returns
ReturnMemberships ==
    /\ m_pc = "cross"
    /\ m_cidx = Len(m_cross)
    /\ m_rt = Len(teams)
    /\ m_pc' = "done"
    /\ UNCHANGED <<teams, users, memberships, m_dept, m_sizes, m_uidx, m_home,
                   m_cross, m_cidx, m_rt, m_ids>>

----------------------------------------------------------------------------
(* The inputs of generate_team_memberships *)

\* SIMULATION_END of the membership runs
MemNow == (105 * 7 + 5) * Day + 12 * Hour

\* generate_teams: created_at of a team, the first and the last second of
\* [ORG_CREATED_AT + 1 day, ORG_CREATED_AT + 180 days]
TeamCreatedChoices ==
    {format_timestamp(ORG_CREATED_AT(MemNow) + 1 * Day),
     format_timestamp(ORG_CREATED_AT(MemNow) + 180 * Day)}

\* generate_users: created_at of a user, the first and the last second of
\* [ORG_CREATED_AT + 1 day, SIMULATION_END - 30 days]
UserCreatedChoices ==
    {format_timestamp(ORG_CREATED_AT(MemNow) + 1 * Day),
     format_timestamp(MemNow - 30 * Day)}

Departments == {"Engineering", "Product"}

\* the team lists: 1 .. MaxTeams teams of any department, created together
TeamLists ==
    UNION {{[k \in 1 .. n |->
                [id |-> uuid4(1 + k), department |-> depts[k], created_at |-> c]] :
                depts \in [1 .. n -> Departments], c \in TeamCreatedChoices} :
           n \in 1 .. MaxTeams}

\* the user lists: 1 .. MaxUsers users hired together; the first `seniors`
\* users have the senior role and the others the junior role, the last
\* `product` users are in Product and the others in Engineering, the last
\* `inactive` users are inactive
UserLists(first_id) ==
    UNION {{[k \in 1 .. n |->
                [id |-> uuid4(first_id + k),
                 department |-> IF k > n - product THEN "Product" ELSE "Engineering",
                 role |-> IF k <= seniors THEN "senior" ELSE "junior",
                 is_active |-> IF k > n - inactive THEN 0 ELSE 1,
                 created_at |-> c]] :
                product \in 0 .. 1, seniors \in 0 .. 1, inactive \in 0 .. 1,
                c \in UserCreatedChoices} :
           n \in 1 .. MaxUsers}

InitMem ==
    /\ m_pc = "home"
    /\ teams \in TeamLists
    /\ users \in UserLists(1 + Len(teams))
    /\ memberships = << >>
    /\ m_dept = 0
    /\ m_sizes = << >>
    /\ m_uidx = 0
    /\ m_home = 0
    /\ m_cross = << >>
    /\ m_cidx = 0
    /\ m_rt = 0
    /\ m_ids = 1 + Len(teams) + Len(users)
    /\ IdleTasks
    /\ IdleDue
    /\ IdleRuns
    /\ IdleCall

NextMem ==
    \/ (StartDept /\ UNCHANGED <<varsTasks, varsDue, varsRuns, varsCall>>)
    \/ (AssignHome /\ UNCHANGED <<varsTasks, varsDue, varsRuns, varsCall>>)
    \/ (StartCross /\ UNCHANGED <<varsTasks, varsDue, varsRuns, varsCall>>)
    \/ (CrossUser /\ UNCHANGED <<varsTasks, varsDue, varsRuns, varsCall>>)
    \/ (RepairStep /\ UNCHANGED <<varsTasks, varsDue, varsRuns, varsCall>>)
    \/ (ReturnMemberships /\ UNCHANGED <<varsTasks, varsDue, varsRuns, varsCall>>)

SpecMem == InitMem /\ [][NextMem]_vars

TeamOf(m) == CHOOSE t \in {teams[k] : k \in 1 .. Len(teams)} : t.id = m.team_id

\* C9: the joined_at of every membership, of the home phase and of the
\* cross-functional phase, is not earlier than the later of the created_at of
\* its team and the created_at of its user.
C9_JoinedAfterTeamAndUser ==
    \A k \in 1 .. Len(memberships) :
        memberships[k].joined_at >=
            Max(TeamOf(memberships[k]).created_at,
                UserOf(users, memberships[k]).created_at)

\* C9 witness: the generator has returned a home membership and a
\* cross-functional membership whose user was created after its team.
C9_Witness ==
    /\ m_pc = "done"
    /\ \E k \in 1 .. m_home :
            UserOf(users, memberships[k]).created_at > TeamOf(memberships[k]).created_at
    /\ \E k \in (m_home + 1) .. Len(memberships) :
            UserOf(users, memberships[k]).created_at > TeamOf(memberships[k]).created_at

----------------------------------------------------------------------------
(* generate_team_memberships with enough teams for a user to be offered   *)
(* more teams than the cross-functional step may add                      *)

\* the team lists: one team, or WideTeams teams of which the last one may be
\* of Product
WideTeamLists ==
    {[k \in 1 .. n |->
        [id |-> uuid4(1 + k),
         department |-> IF k > n - product THEN "Product" ELSE "Engineering",
         created_at |-> c]] :
        n \in {1, WideTeams}, product \in 0 .. 1, c \in TeamCreatedChoices}

\* the user lists: MaxUsers active users hired together, the first `seniors`
\* of them senior, the last `product` of them in Product
WideUserLists(first_id) ==
    {[k \in 1 .. MaxUsers |->
        [id |-> uuid4(first_id + k),
         department |-> IF k > MaxUsers - product THEN "Product" ELSE "Engineering",
         role |-> IF k <= seniors THEN "senior" ELSE "junior",
         is_active |-> 1,
         created_at |-> c]] :
        product \in 0 .. 1, seniors \in 0 .. 1, c \in UserCreatedChoices}

InitMemWide ==
    /\ m_pc = "home"
    /\ teams \in WideTeamLists
    /\ users \in WideUserLists(1 + Len(teams))
    /\ memberships = << >>
    /\ m_dept = 0
    /\ m_sizes = << >>
    /\ m_uidx = 0
    /\ m_home = 0
    /\ m_cross = << >>
    /\ m_cidx = 0
    /\ m_rt = 0
    /\ m_ids = 1 + Len(teams) + Len(users)
    /\ IdleTasks
    /\ IdleDue
    /\ IdleRuns
    /\ IdleCall

SpecMemWide == InitMemWide /\ [][NextMem]_vars

\* the indices of the memberships of a user
MembershipsOf(mems, user_id) == {k \in 1 .. Len(mems) : mems[k].user_id = user_id}

\* C11: once step 1 is over every user has exactly one home membership, and in
\* the result every user has at least 1 and at most 3 memberships, no two of
\* them for the same team; with a single team there are as many memberships
\* as users.
C11_OneHomeAndOneToThreeTeams ==
    /\ m_pc \in {"cross", "done"} =>
            \A u \in 1 .. Len(users) :
                Cardinality({k \in 1 .. m_home : memberships[k].user_id = users[u].id}) = 1
    /\ m_pc = "done" =>
            /\ \A u \in 1 .. Len(users) :
                    LET mine == MembershipsOf(memberships, users[u].id)
                    IN  /\ Cardinality(mine) \in 1 .. 3
                        /\ \A i, j \in mine :
                                memberships[i].team_id = memberships[j].team_id => i = j
            /\ Len(teams) = 1 => Len(memberships) = Len(users)

\* C11 witness: the generator has returned with a user in 3 of the WideTeams
\* teams, the cross-functional step having had more than 2 teams to offer.
C11_Witness ==
    /\ m_pc = "done"
    /\ Len(teams) > 3
    /\ \E u \in 1 .. Len(users) :
            Cardinality(MembershipsOf(memberships, users[u].id)) = 3

\* C27: a step of the lead repair changes nothing but the role of at most one
\* membership of the team it looks at, only from member to lead and only when
\* the team had no lead; the promoted membership is one of a user with the
\* senior or lead role when the team has such a member.  Repairing the same
\* team again changes nothing, and neither does repairing any team once the
\* generator has returned.
C27_RepairPromotesAtMostOne ==
    /\ [][RepairStep =>
            LET team == teams[m_rt + 1]
                changed == {k \in 1 .. Len(memberships) :
                                memberships'[k] # memberships[k]}
            IN  /\ Len(memberships') = Len(memberships)
                /\ teams' = teams
                /\ users' = users
                /\ Cardinality(changed) <= 1
                /\ \A k \in changed :
                        /\ memberships[k].team_id = team.id
                        /\ memberships[k].role = "member"
                        /\ memberships'[k] = [memberships[k] EXCEPT !.role = "lead"]
                        /\ LeadsOf(memberships, team.id) = 0
                        /\ (\E j \in 1 .. Len(memberships) :
                                /\ memberships[j].team_id = team.id
                                /\ IsSenior(UserOf(users, memberships[j])))
                            => IsSenior(UserOf(users, memberships[k]))
                /\ RepairTeam(memberships', users, team) = memberships']_vars
    /\ [](m_pc = "done" =>
            \A t \in 1 .. Len(teams) :
                RepairTeam(memberships, users, teams[t]) = memberships)

\* C27 witness: the repair has promoted a cross-functional member with the
\* senior role in a team whose first member has not that role, and the
\* generator has returned
C27_Witness ==
    /\ m_pc = "done"
    /\ \E k \in (m_home + 1) .. Len(memberships) :
            /\ memberships[k].role = "lead"
            /\ IsSenior(UserOf(users, memberships[k]))
            /\ ~IsSenior(UserOf(users,
                    memberships[TeamMems(memberships, memberships[k].team_id)[1]]))

\* C28: every membership added in the cross-functional phase belongs to an
\* active user and is for a team whose department differs from the department
\* of the user.
C28_CrossMembershipsOtherDepartment ==
    m_pc \in {"cross", "done"} =>
        \A k \in (m_home + 1) .. Len(memberships) :
            /\ UserOf(users, memberships[k]).is_active # 0
            /\ TeamOf(memberships[k]).department
                    # UserOf(users, memberships[k]).department

\* C10: after generate_team_memberships returns, every team of its input has a
\* membership with role = lead.
C10_EveryTeamHasLead ==
    m_pc = "done" =>
        \A t \in 1 .. Len(teams) :
            \E k \in 1 .. Len(memberships) :
                /\ memberships[k].team_id = teams[t].id
                /\ memberships[k].role = "lead"

----------------------------------------------------------------------------
(* What the generators compute of a draw of the `random` stream, of         *)
(* uuid.uuid4() and of config.SIMULATION_END                                *)

\* percent points p of x, rounded down: (x * p) \div 100 without the product
PercentOf(x, p) == (x \div 100) * p + ((x % 100) * p) \div 100

\* uuid.uuid4(): the n-th identifier a process makes of the entropy it reads
\* (os.urandom); random.seed has no part in it.  Two identifiers are the same
\* only when the entropy and the count are: the pair is numbered along the
\* diagonals, so that no count of one entropy meets a count of another
uuid4_urandom(entropy, n) == ((entropy + n) * (entropy + n + 1)) \div 2 + n

\* datetime.now() when config.py is imported: the first clock of NowChoices,
\* and one tick after the same time of the next day
ClockChoices ==
    LET now == CHOOSE t \in NowChoices : \A u \in NowChoices : t <= u
    IN  {now, now + Day + 1}

\* what os.urandom can give a process
EntropyChoices == {1, 2}

\* what os.urandom gives the r-th run of a behaviour: an identifier is the
\* entropy and a count, so that the runs with one entropy are the runs with
\* the other under other names, and only whether a later run reads what the
\* first one read makes a difference
EntropyOf(r) == IF r = 1 THEN {1} ELSE EntropyChoices

\* whole numbers beyond the integers of the checker, as the sequence of their
\* digits to the base 10000, the lowest first
Limb == 100 * 100

\* the digits of a sequence of columns and a carry
RECURSIVE Carried(_, _)
Carried(columns, carry) ==
    IF columns = << >>
    THEN IF carry = 0 THEN << >>
         ELSE <<carry % Limb>> \o Carried(<< >>, carry \div Limb)
    ELSE <<(columns[1] + carry) % Limb>>
         \o Carried(Tail(columns), (columns[1] + carry) \div Limb)

Whole(n) == Carried(<< >>, n)

\* the product of two such numbers
Times(a, b) ==
    Carried([k \in 1 .. Len(a) + Len(b) |->
                Sum([i \in 1 .. Len(a) |->
                        IF k + 1 - i \in 1 .. Len(b) THEN a[i] * b[k + 1 - i] ELSE 0])],
            0)

\* -1, 0 or 1 as a is below, equal to or above b, from the i-th digit down
RECURSIVE Compare(_, _, _)
Compare(a, b, i) ==
    IF i = 0 THEN 0
    ELSE LET x == IF i <= Len(a) THEN a[i] ELSE 0
             y == IF i <= Len(b) THEN b[i] ELSE 0
         IN  IF x < y THEN 0 - 1 ELSE IF x > y THEN 1 ELSE Compare(a, b, i - 1)

\* the quotient of such a number by a divisor below Limb and the remainder,
\* from the i-th digit down with the remainder of the digits above carried
RECURSIVE Divided(_, _, _, _)
Divided(a, divisor, i, carry) ==
    IF i = 0 THEN <<<< >>, carry>>
    ELSE LET rest == Divided(a, divisor, i - 1, (carry * Limb + a[i]) % divisor)
         IN  <<Append(rest[1], (carry * Limb + a[i]) \div divisor), rest[2]>>

\* the largest n in low .. high whose square is not above the number q
RECURSIVE RootSearch(_, _, _)
RootSearch(q, low, high) ==
    IF low >= high THEN low
    ELSE LET middle == low + (high - low + 1) \div 2
             square == Times(Whole(middle), Whole(middle))
         IN  IF Compare(square, q, Max(Len(square), Len(q))) <= 0
             THEN RootSearch(q, middle, high)
             ELSE RootSearch(q, low, middle - 1)

\* generate_staggered_dates, "growth": delta = (end - start) * progress with
\* progress = random.random() ** 0.5, of a draw in percent points and a span
\* in ticks, as <<ticks, whole>>: the whole ticks of delta, the largest whose
\* square is not above span^2 * roll / 100, and whether delta is a whole
\* number of ticks.  The search starts from the ten-thousandths of the span
\* between which the root lies.
GrowthDelta(span, roll) ==
    LET bound == Divided(Times(Times(Whole(span), Whole(span)), Whole(roll)), 100,
                         Len(Times(Times(Whole(span), Whole(span)), Whole(roll))), 0)
        root == RootSearch(Whole(roll * 1000000), 0, Limb)
        part(n) == (span \div Limb) * n + ((span % Limb) * n) \div Limb
        ticks == RootSearch(bound[1], part(root), Min(span, part(root + 1)))
        square == Times(Whole(ticks), Whole(ticks))
    IN  <<ticks, bound[2] = 0 /\ Compare(square, bound[1],
                                         Max(Len(square), Len(bound[1]))) = 0>>

\* weighted_choice(config.ROLE_DISTRIBUTION)
RoleChoice(roll) ==
    IF roll < 40 THEN "junior"
    ELSE IF roll < 75 THEN "mid"
    ELSE IF roll < 95 THEN "senior"
    ELSE "lead"

\* comment_count_for_task
comment_count_for_task(roll, pick) ==
    IF roll < 30 THEN 0
    ELSE IF roll < 70 THEN randint(1, 3, pick)
    ELSE IF roll < 90 THEN randint(4, 10, pick)
    ELSE randint(10, 25, pick)

----------------------------------------------------------------------------
(* utils/names.py generate_unique_emails and the name loop of              *)
(* generate_projects.  A string is a stem and the suffixes appended to it:  *)
(* for the local part of an email the decimal digits that end it, for a     *)
(* project name its " (n)" groups.  Two strings are equal exactly when      *)
(* their stems and their suffixes are.                                      *)

MaxNames == 4

\* str(n): the decimal digits of n
RECURSIVE Digits(_)
Digits(n) == IF n < 10 THEN <<n>> ELSE Digits(n \div 10) \o <<n % 10>>

\* f"{local}{counter}@{dom}"
EmailWithCounter(base_email, counter) ==
    [stem |-> base_email.stem, tail |-> base_email.tail \o Digits(counter)]

\* `while email in seen` of generate_unique_emails, from counter on
RECURSIVE EmailFrom(_, _, _)
EmailFrom(base_email, seen, counter) ==
    LET email == EmailWithCounter(base_email, counter)
    IN  IF email \in seen THEN EmailFrom(base_email, seen, counter + 1) ELSE email

\* the email with the counter added once, whether or not the result is taken
UniqueEmail_once(base_email, seen) ==
    IF base_email \in seen THEN EmailWithCounter(base_email, 1) ELSE base_email

\* the email generate_unique_emails gives a name whose base email is base_email
UniqueEmail(base_email, seen) ==
    IF base_email \in seen THEN EmailFrom(base_email, seen, 1) ELSE base_email

\* f"{base_name} ({counter})"
NameWithCounter(base_name, counter) ==
    [stem |-> base_name.stem, tail |-> base_name.tail \o <<counter>>]

\* `while name in used_names` of generate_projects, from counter on
RECURSIVE NameFrom(_, _, _)
NameFrom(base_name, used_names, counter) ==
    LET name == NameWithCounter(base_name, counter)
    IN  IF name \in used_names THEN NameFrom(base_name, used_names, counter + 1)
        ELSE name

\* the name generate_projects gives a project whose template gives base_name
UniqueName(base_name, used_names) ==
    IF base_name \in used_names THEN NameFrom(base_name, used_names, 1) ELSE base_name

\* the base strings: a stem, the same stem with a suffix already on it, and
\* another stem
BaseStrings ==
    {[stem |-> "a", tail |-> << >>], [stem |-> "a", tail |-> <<1>>],
     [stem |-> "a", tail |-> <<2>>], [stem |-> "b", tail |-> << >>]}

\* the sequences of base strings handed to either loop
BaseLists == UNION {[1 .. n -> BaseStrings] : n \in 0 .. MaxNames}

InitNames ==
    /\ call_pc \in {"generate_unique_emails", "generate_projects"}
    /\ call_args \in {[names |-> names] : names \in BaseLists}
    /\ call_local = [out |-> << >>, seen |-> {}]
    /\ call_result = None
    /\ IdleOthers

\* one iteration of `for name in names` of generate_unique_emails
NextEmail ==
    /\ call_pc = "generate_unique_emails"
    /\ Len(call_local.out) < Len(call_args.names)
    /\ LET email == UniqueEmail(call_args.names[Len(call_local.out) + 1],
                                call_local.seen)
       IN  call_local' = [out |-> Append(call_local.out, email),
                          seen |-> call_local.seen \cup {email}]
    /\ UNCHANGED <<call_pc, call_args, call_result>>

\* one project of generate_projects: its name is made unique and recorded
NextProjectName ==
    /\ call_pc = "generate_projects"
    /\ Len(call_local.out) < Len(call_args.names)
    /\ LET name == UniqueName(call_args.names[Len(call_local.out) + 1],
                              call_local.seen)
       IN  call_local' = [out |-> Append(call_local.out, name),
                          seen |-> call_local.seen \cup {name}]
    /\ UNCHANGED <<call_pc, call_args, call_result>>

\* either function returns its list
ReturnNames ==
    /\ call_pc \in {"generate_unique_emails", "generate_projects"}
    /\ Len(call_local.out) = Len(call_args.names)
    /\ call_result' = call_local.out
    /\ call_pc' = "returned"
    /\ UNCHANGED <<call_args, call_local>>

NextNames ==
    \/ (NextEmail /\ UNCHANGED varsOthers)
    \/ (NextProjectName /\ UNCHANGED varsOthers)
    \/ (ReturnNames /\ UNCHANGED varsOthers)

SpecNames == InitNames /\ [][NextNames]_vars

\* C12: the emails generate_unique_emails has given so far are pairwise
\* different, and so are the project names generate_projects has given so far,
\* whatever the base strings are.
C12_EmailsAndProjectNamesUnique ==
    \A i, j \in 1 .. Len(call_local.out) :
        call_local.out[i] = call_local.out[j] => i = j

\* C12 witness: a list was returned in which a base string met a value that
\* already carried its suffix: "a", "a1", "a" gave the third one the counter 2.
C12_Witness ==
    /\ call_pc = "returned"
    /\ Len(call_result) >= 3
    /\ call_args.names[1] = [stem |-> "a", tail |-> << >>]
    /\ call_args.names[2] = [stem |-> "a", tail |-> <<1>>]
    /\ call_args.names[3] = [stem |-> "a", tail |-> << >>]
    /\ call_result[3] = [stem |-> "a", tail |-> <<2>>]

----------------------------------------------------------------------------
(* generators/tags.py generate_task_tags.  The name of a task is the set of *)
(* keywords found in it.                                                    *)

MaxTagTasks == 2

\* generate_task_tag
generate_task_tag(task_id, tag_id) == [task_id |-> task_id, tag_id |-> tag_id]

\* the tag names the nine keyword tests look up for a task name
KeywordTagNames(name) ==
    (IF "fix" \in name \/ "bug" \in name THEN {"bug"} ELSE {})
    \cup (IF "feature" \in name \/ "implement" \in name THEN {"feature"} ELSE {})
    \cup (IF "refactor" \in name THEN {"tech-debt"} ELSE {})
    \cup (IF "document" \in name THEN {"documentation"} ELSE {})
    \cup (IF "test" \in name THEN {"testing"} ELSE {})
    \cup (IF "security" \in name THEN {"security"} ELSE {})
    \cup (IF "performance" \in name \/ "optimize" \in name THEN {"performance"} ELSE {})
    \cup (IF "mobile" \in name THEN {"mobile"} ELSE {})
    \cup (IF "api" \in name THEN {"api"} ELSE {})

\* tag_by_name[name]["id"]: the last tag of the list with that name
TagByName(tags, name) ==
    LET named == {k \in 1 .. Len(tags) : tags[k].name = name}
    IN  tags[CHOOSE k \in named : \A j \in named : j <= k].id

\* the ids the keyword tests add to assigned_tags
MatchedTags(tags, name) ==
    {TagByName(tags, n) :
        n \in {n \in KeywordTagNames(name) : \E k \in 1 .. Len(tags) : tags[k].name = n}}

\* assigned_tags after the additional tags were added
AssignedTags(matched, additional) ==
    matched \cup {additional[k] : k \in 1 .. Len(additional)}

\* the rows of a task, one per matched tag and one more per additional tag
TaskTagRows_list(task_id, matched, additional, order) ==
    LET ids == Ascending(matched) \o additional
    IN  [k \in 1 .. Len(ids) |-> generate_task_tag(task_id, ids[k])]

\* `for tag_id in assigned_tags`: the rows of a task; order is the order in
\* which the set is iterated
TaskTagRows(task_id, matched, additional, order) ==
    [k \in 1 .. Len(order) |-> generate_task_tag(task_id, order[k])]

\* the tag lists: none, one tag, the three tags the keywords look up
TagLists ==
    {<< >>,
     <<[id |-> 11, name |-> "bug"]>>,
     <<[id |-> 11, name |-> "bug"], [id |-> 12, name |-> "feature"],
       [id |-> 13, name |-> "api"]>>}

\* the names of the tasks
TaskNames == {{}, {"fix"}, {"bug", "implement"}, {"api", "feature", "fix"}}

\* the task lists: up to MaxTagTasks tasks; a task after the first is a
\* top-level task or a subtask of the first
TagTaskLists ==
    UNION {{[k \in 1 .. n |->
                [id |-> k, name |-> names[k],
                 parent_task_id |-> IF k > 1 /\ sub[k] THEN 1 ELSE None]] :
                names \in [1 .. n -> TaskNames], sub \in [1 .. n -> BOOLEAN]} :
           n \in 0 .. MaxTagTasks}

InitTaskTags ==
    /\ call_pc = "generate_task_tags"
    /\ call_args \in {[tasks |-> ts, tags |-> tg] : ts \in TagTaskLists, tg \in TagLists}
    /\ call_local = [done |-> 0, additional |-> << >>, task_tags |-> << >>]
    /\ call_result = None
    /\ IdleOthers

\* one iteration of `for task in parent_tasks`
TagTask ==
    /\ call_pc = "generate_task_tags"
    /\ LET parent_tasks == Ascending(ParentTaskIndices(call_args.tasks))
           tags == call_args.tags
       IN  /\ call_local.done < Len(parent_tasks)
           /\ LET task == call_args.tasks[parent_tasks[call_local.done + 1]]
                  matched == MatchedTags(tags, task.name)
                  tag_ids == {tags[k].id : k \in 1 .. Len(tags)}
              IN  \E tag_roll \in Ends(0, 99) :
                  \E extra_roll \in IF biased_boolean(tag_roll, 40)
                                    THEN Ends(0, 99) ELSE {99} :
                  \E wanted \in IF extra_roll < 30 THEN 1 .. 2 ELSE {0} :
                  \E additional \in Samples(tag_ids, Min(Len(tags), wanted)) :
                  \E order \in Samples(AssignedTags(matched, additional),
                                       Cardinality(AssignedTags(matched, additional))) :
                      call_local' =
                          [done |-> call_local.done + 1,
                           additional |-> additional,
                           task_tags |->
                              IF biased_boolean(tag_roll, 40)
                              THEN call_local.task_tags \o
                                   TaskTagRows(task.id, matched, additional, order)
                              ELSE call_local.task_tags]
    /\ UNCHANGED <<call_pc, call_args, call_result>>

\* generate_task_tags returns task_tags
ReturnTaskTags ==
    /\ call_pc = "generate_task_tags"
    /\ call_local.done = Cardinality(ParentTaskIndices(call_args.tasks))
    /\ call_result' = call_local.task_tags
    /\ call_pc' = "returned"
    /\ UNCHANGED <<call_args, call_local>>

NextTaskTags ==
    \/ (TagTask /\ UNCHANGED varsOthers)
    \/ (ReturnTaskTags /\ UNCHANGED varsOthers)

SpecTaskTags == InitTaskTags /\ [][NextTaskTags]_vars

\* C13: no two rows of task_tags have the same (task_id, tag_id), and the
\* task of every row is a task of the input whose parent_task_id is null.
C13_TaskTagPairsUnique ==
    LET rows == call_local.task_tags
    IN  /\ \A i, j \in 1 .. Len(rows) : rows[i] = rows[j] => i = j
        /\ \A i \in 1 .. Len(rows) :
                \E k \in ParentTaskIndices(call_args.tasks) :
                    call_args.tasks[k].id = rows[i].task_id

\* C13 witness: the input has a subtask, and for its first task, named
\* "fix", the keyword-matched tag "bug" was also among the two additional tags
\* drawn: the task has two rows, one of them for "bug".
C13_Witness ==
    /\ call_local.done = 1
    /\ \E k \in 1 .. Len(call_args.tasks) : call_args.tasks[k].parent_task_id # None
    /\ call_args.tasks[1].name = {"fix"}
    /\ Len(call_local.additional) = 2
    /\ \E k \in 1 .. 2 : call_local.additional[k] = 11
    /\ Len(call_local.task_tags) = 2
    /\ \E i \in 1 .. 2 : call_local.task_tags[i] = generate_task_tag(1, 11)

----------------------------------------------------------------------------
(* utils/distributions.py distribute_among called on its own *)

MaxTotal == 4
MaxBuckets == 3
MaxMinPerBucket == 2

InitDistribute ==
    /\ call_pc = "distribute_among"
    /\ call_args \in [total : 0 .. MaxTotal, buckets : 0 .. MaxBuckets,
                      min_per_bucket : 0 .. MaxMinPerBucket]
    /\ call_local = [picks |-> << >>]
    /\ call_result = None
    /\ IdleOthers

\* a call distribute_among(total, buckets, min_per_bucket); picks are the
\* draws of random.choices it consumed
CallDistributeAmong ==
    /\ call_pc = "distribute_among"
    /\ \E picks \in DistributePicks(call_args.total, call_args.buckets,
                                    call_args.min_per_bucket) :
            /\ call_local' = [picks |-> picks]
            /\ call_result' = distribute_among(call_args.total, call_args.buckets,
                                               call_args.min_per_bucket, picks)
    /\ call_pc' = "returned"
    /\ UNCHANGED call_args

NextDistribute == CallDistributeAmong /\ UNCHANGED varsOthers

SpecDistribute == InitDistribute /\ [][NextDistribute]_vars

\* C14 as stated: the result has `buckets` non-negative entries and its sum is
\* total, for every total >= 0, buckets >= 0 and min_per_bucket >= 0.
C14_SumIsTotal ==
    call_pc = "returned" =>
        /\ Len(call_result) = call_args.buckets
        /\ \A i \in 1 .. Len(call_result) : call_result[i] >= 0
        /\ Sum(call_result) = call_args.total

\* C14 amended: the result has `buckets` non-negative entries; its sum is total
\* when buckets >= 1, and with buckets = 0 it is the empty list, whose sum is 0
\* whatever total is.
C14_SumIsTotalWithBuckets ==
    call_pc = "returned" =>
        /\ Len(call_result) = call_args.buckets
        /\ \A i \in 1 .. Len(call_result) : call_result[i] >= 0
        /\ call_args.buckets >= 1 => Sum(call_result) = call_args.total
        /\ call_args.buckets = 0 => call_result = << >>

\* C14 witness: a call with random choices returned an uneven split
C14_Witness ==
    /\ call_pc = "returned"
    /\ call_args.buckets = MaxBuckets
    /\ call_args.total = MaxTotal
    /\ Len(call_local.picks) >= 2
    /\ \E i, j \in 1 .. Len(call_result) : call_result[i] >= call_result[j] + 2

\* C15: with total < buckets * min_per_bucket no random choice is consumed and
\* the result is the even split; otherwise every bucket holds at least
\* min_per_bucket.
C15_EvenSplitOrMinimums ==
    call_pc = "returned" =>
        IF call_args.total < call_args.buckets * call_args.min_per_bucket
        THEN /\ call_local.picks = << >>
             /\ call_result =
                    [i \in 1 .. call_args.buckets |->
                        IF i <= call_args.total % call_args.buckets
                        THEN call_args.total \div call_args.buckets + 1
                        ELSE call_args.total \div call_args.buckets]
        ELSE \A i \in 1 .. Len(call_result) :
                call_result[i] >= call_args.min_per_bucket

\* C15 witness: a call with total < buckets * min_per_bucket and a remainder
\* returned with the first bucket one above the last.
C15_Witness ==
    /\ call_pc = "returned"
    /\ call_args.total < call_args.buckets * call_args.min_per_bucket
    /\ call_args.total % call_args.buckets # 0
    /\ call_args.total > call_args.buckets
    /\ call_result[1] = call_result[call_args.buckets] + 1

----------------------------------------------------------------------------
(* utils/distributions.py weighted_choice called on its own *)

MaxWeight == 2

\* the keys of the sampled option maps
ChoiceKeys == {"a", "b", "c"}

\* option maps: a dict from some of the keys to weights, the empty dict included
OptionMaps == UNION {[ks -> 0 .. MaxWeight] : ks \in SUBSET ChoiceKeys}

\* zip(*items): unpacking into (choices, weights) needs at least one item
UnpackRaises(options) == DOMAIN options = {}

\* total = sum(weights)
TotalWeight(options) ==
    LET RECURSIVE SumOver(_)
        SumOver(ks) == IF ks = {} THEN 0
                       ELSE LET k == CHOOSE x \in ks : TRUE
                            IN  options[k] + SumOver(ks \ {k})
    IN  SumOver(DOMAIN options)

\* random.choices(choices, weights, k=1)[0]: a key of positive weight
ChoicesOf(options) == {k \in DOMAIN options : options[k] > 0}

InitChoice ==
    /\ call_pc = "weighted_choice"
    /\ call_args \in [options : OptionMaps]
    /\ call_local = [total |-> None]
    /\ call_result = None
    /\ IdleOthers

\* a call weighted_choice(options)
CallWeightedChoice ==
    /\ call_pc = "weighted_choice"
    /\ LET options == call_args.options
       IN  IF UnpackRaises(options)
           THEN /\ call_pc' = "raised"
                /\ call_result' = "ValueError"
                /\ UNCHANGED call_local
           ELSE IF TotalWeight(options) = 0
           THEN /\ call_pc' = "raised"
                /\ call_result' = "ZeroDivisionError"
                /\ call_local' = [total |-> 0]
           ELSE /\ call_pc' = "returned"
                /\ call_result' \in ChoicesOf(options)
                /\ call_local' = [total |-> TotalWeight(options)]
    /\ UNCHANGED call_args

NextChoice == CallWeightedChoice /\ UNCHANGED varsOthers

SpecChoice == InitChoice /\ [][NextChoice]_vars

\* C16: weighted_choice never raises, for the empty map, for all-zero weights
\* and for a single entry; its result is a key of the map, and for the map
\* {x: 1} it is x.
C16_WeightedChoiceNeverRaises ==
    /\ call_pc # "raised"
    /\ call_pc = "returned" => call_result \in DOMAIN call_args.options
    /\ (call_pc = "returned" /\ \E x \in ChoiceKeys : call_args.options = [k \in {x} |-> 1])
            => call_args.options = [k \in {call_result} |-> 1]

----------------------------------------------------------------------------
(* utils/dates.py random_business_date called on its own *)

\* sampled datetimes: Monday 10:30 and 12:00, Saturday 08:00, Sunday 20:00 and
\* the Monday after at 08:00
BusinessTimes ==
    {10 * Hour + 30 * Minute, 12 * Hour, 5 * Day + 8 * Hour,
     6 * Day + 20 * Hour, 7 * Day + 8 * Hour}

\* the resamples of the weekday loop: none or one
BusinessRedraws(start, end) ==
    {<< >>} \cup {<<d>> : d \in SecondsDraws(start, end)}

\* random.randint(9, 17) and random.randint(0, 59): the earliest and the latest
BusinessHourMinute == {<<9, 0>>, <<17, 59>>}

InitBusiness ==
    /\ call_pc = "random_business_date"
    /\ call_args \in {a \in [start : BusinessTimes, end : BusinessTimes] :
                        a.start <= a.end}
    /\ call_local = [first |-> None, redraws |-> << >>, adjust |-> FALSE,
                     hour |-> None, minute |-> None]
    /\ call_result = None
    /\ IdleOthers

\* a call random_business_date(start, end)
CallRandomBusinessDate ==
    /\ call_pc = "random_business_date"
    /\ \E first \in SecondsDraws(call_args.start, call_args.end),
          redraws \in BusinessRedraws(call_args.start, call_args.end),
          adjust \in BOOLEAN, hm \in BusinessHourMinute :
            /\ call_local' = [first |-> first, redraws |-> redraws,
                              adjust |-> adjust,
                              hour |-> IF adjust THEN hm[1] ELSE None,
                              minute |-> IF adjust THEN hm[2] ELSE None]
            /\ call_result' = random_business_date(call_args.start, call_args.end,
                                    first, redraws, adjust, hm[1], hm[2])
    /\ call_pc' = "returned"
    /\ UNCHANGED call_args

NextBusiness == CallRandomBusinessDate /\ UNCHANGED varsOthers

SpecBusiness == InitBusiness /\ [][NextBusiness]_vars

\* C17: for start <= end the datetime returned by random_business_date lies
\* within [start, end], after the weekday resampling and the hour and minute
\* adjustment too.
C17_BusinessDateInRange ==
    call_pc = "returned" =>
        /\ call_args.start <= call_result
        /\ call_result <= call_args.end

----------------------------------------------------------------------------
(* utils/dates.py generate_staggered_dates called on its own *)

MaxCount == 2

\* sampled datetimes: a Monday 00:00, the day after and thirty days after
StaggerTimes == {0, Day, 30 * Day}

\* random.random() of "growth", in percent points
StaggerRolls == {0, 50, 99}

\* random.gauss(0, 1.5) of "bursts", in days: three days early, none, three
\* days late
StaggerNoise == {0 - 3 * Day, 0, 3 * Day}

\* the burst points: start, start + 14 days, ... while current < end
RECURSIVE BurstPoints(_, _)
BurstPoints(current, end) ==
    IF current < end THEN <<current>> \o BurstPoints(current + 14 * Day, end)
    ELSE << >>

\* max(start, min(end, date))
Clamp(start, end, date) ==
    LET low == IF date < end THEN date ELSE end
    IN  IF low > start THEN low ELSE start

\* sorted(dates)
RECURSIVE sorted(_)
sorted(dates) ==
    IF dates = << >> THEN << >>
    ELSE LET i == CHOOSE k \in 1 .. Len(dates) :
                    /\ \A j \in 1 .. Len(dates) : dates[k] <= dates[j]
                    /\ \A j \in 1 .. k - 1 : dates[j] # dates[k]
         IN  <<dates[i]>> \o sorted([j \in 1 .. Len(dates) - 1 |->
                                        IF j < i THEN dates[j] ELSE dates[j + 1]])

InitStaggered ==
    /\ call_pc = "generate_staggered_dates"
    /\ call_args \in {a \in [start : StaggerTimes, end : StaggerTimes,
                             count : 0 .. MaxCount,
                             distribution : {"uniform", "growth", "bursts"}] :
                        a.start <= a.end}
    /\ call_local = [dates |-> << >>,
                     burst_points |-> IF call_args.distribution = "bursts"
                                      THEN BurstPoints(call_args.start, call_args.end)
                                      ELSE << >>]
    /\ call_result = None
    /\ IdleOthers

\* one iteration of `for _ in range(count)` in the branch of the distribution
StaggeredDate ==
    /\ call_pc = "generate_staggered_dates"
    /\ Len(call_local.dates) < call_args.count
    /\ LET start == call_args.start
           end == call_args.end
       IN  \/ /\ call_args.distribution = "uniform"
              /\ \E random_seconds \in SecondsDraws(start, end) :
                    call_local' = [call_local EXCEPT !.dates =
                        Append(@, random_date_between(start, end, random_seconds))]
              /\ UNCHANGED <<call_pc, call_result>>
           \/ /\ call_args.distribution = "growth"
              /\ \E roll \in StaggerRolls :
                    call_local' = [call_local EXCEPT !.dates =
                        Append(@, start + GrowthDelta(end - start, roll)[1])]
              /\ UNCHANGED <<call_pc, call_result>>
           \/ /\ call_args.distribution = "bursts"
              /\ call_local.burst_points # << >>
              /\ \E b \in 1 .. Len(call_local.burst_points), noise \in StaggerNoise :
                    call_local' = [call_local EXCEPT !.dates =
                        Append(@, Clamp(start, end, call_local.burst_points[b] + noise))]
              /\ UNCHANGED <<call_pc, call_result>>
           \/ /\ call_args.distribution = "bursts"
              /\ call_local.burst_points = << >>
              /\ call_pc' = "raised"
              /\ call_result' = "IndexError"
              /\ UNCHANGED call_local
    /\ UNCHANGED call_args

\* return sorted(dates)
ReturnStaggered ==
    /\ call_pc = "generate_staggered_dates"
    /\ Len(call_local.dates) >= call_args.count
    /\ call_result' = sorted(call_local.dates)
    /\ call_pc' = "returned"
    /\ UNCHANGED <<call_args, call_local>>

NextStaggered ==
    \/ (StaggeredDate /\ UNCHANGED varsOthers)
    \/ (ReturnStaggered /\ UNCHANGED varsOthers)

SpecStaggered == InitStaggered /\ [][NextStaggered]_vars

\* C18: for each of the shapes uniform, growth and bursts, every count >= 0
\* and every start <= end (start = end included), generate_staggered_dates
\* returns without raising: exactly `count` datetimes, each within
\* [start, end], in ascending order.
C18_StaggeredDatesReturned ==
    /\ call_pc # "raised"
    /\ call_pc = "returned" =>
        /\ Len(call_result) = call_args.count
        /\ \A i \in 1 .. Len(call_result) :
                call_args.start <= call_result[i] /\ call_result[i] <= call_args.end
        /\ \A i \in 1 .. Len(call_result) - 1 : call_result[i] <= call_result[i + 1]

----------------------------------------------------------------------------
(* src/main.py main() under a configuration that may be in error *)

MaxConfigUsers == 2
MaxConfigTeams == 2
MaxConfigProjects == 2

\* config.DEPARTMENT_DISTRIBUTION, by its keys: empty, one or two departments
DepartmentTables == {{}, {"Engineering"}, {"Engineering", "Sales"}}

\* config.ROLE_DISTRIBUTION, by its keys: empty, or the four roles
RoleTables == {{}, {"junior", "mid", "senior", "lead"}}

\* the values of config.py that main() reads
Configs ==
    [NUM_USERS : 0 .. MaxConfigUsers, NUM_TEAMS : 0 .. MaxConfigTeams,
     NUM_PROJECTS : 0 .. MaxConfigProjects,
     DEPARTMENT_DISTRIBUTION : DepartmentTables, ROLE_DISTRIBUTION : RoleTables]

\* generate_teams: every department gets max(1, its share) teams, then
\* departments gain teams while the total is below num_teams and the largest
\* loses one while the total is above it and it has more than one
TeamCount(num_teams, departments) ==
    IF Cardinality(departments) > num_teams THEN Cardinality(departments)
    ELSE num_teams

\* the functions of module `random` that the code of a source file calls, and
\* a reading of utils/dates.py in which a helper seeds the stream
RandomCalls_reseed(file) ==
    IF file = "main.py" THEN {"seed"}
    ELSE IF file = "utils/dates.py" THEN {"seed", "random"}
    ELSE {}
RandomCalls(file) ==
    CASE file = "main.py" -> {"seed"}
      [] file = "generators/teams.py" -> {"choice", "randint"}
      [] file = "generators/users.py" -> {"choices"}
      [] file = "generators/team_memberships.py" -> {"randint", "random", "sample"}
      [] file = "generators/projects.py" -> {"choice", "choices", "randint", "random"}
      [] file = "generators/tasks.py" ->
            {"choice", "choices", "randint", "random", "sample", "shuffle", "uniform"}
      [] file = "generators/subtasks.py" -> {"choice"}
      [] file = "generators/comments.py" -> {"choice", "choices", "random", "sample"}
      [] file = "generators/custom_fields.py" -> {"randint", "random"}
      [] file = "generators/tags.py" -> {"randint", "random", "sample"}
      [] file = "utils/dates.py" -> {"choice", "gauss", "randint", "random", "uniform"}
      [] file = "utils/distributions.py" ->
            {"choices", "gauss", "lognormvariate", "randint", "random", "sample",
             "uniform"}
      [] file = "utils/names.py" -> {"choices", "randint"}
      [] OTHER -> {}

\* the file of the generator a stage of main calls, and the files of the
\* helpers that file imports
StageFile(stage) ==
    CASE stage = "organizations" -> "generators/organizations.py"
      [] stage = "teams" -> "generators/teams.py"
      [] stage = "users" -> "generators/users.py"
      [] stage = "team_memberships" -> "generators/team_memberships.py"
      [] stage = "projects" -> "generators/projects.py"
      [] stage = "sections" -> "generators/sections.py"
      [] stage = "tasks" -> "generators/tasks.py"
      [] stage = "subtasks" -> "generators/subtasks.py"
      [] stage = "comments" -> "generators/comments.py"
      [] stage \in {"custom_field_definitions", "custom_field_values"} ->
            "generators/custom_fields.py"
      [] stage \in {"tags", "task_tags"} -> "generators/tags.py"
Imports(file) ==
    CASE file \in {"generators/organizations.py", "generators/teams.py"} ->
            {"utils/dates.py"}
      [] file = "generators/users.py" ->
            {"utils/dates.py", "utils/names.py", "utils/distributions.py"}
      [] file \in {"generators/team_memberships.py", "generators/projects.py",
                   "generators/tasks.py", "generators/subtasks.py",
                   "generators/comments.py"} ->
            {"utils/dates.py", "utils/distributions.py"}
      [] file \in {"generators/custom_fields.py", "generators/tags.py"} ->
            {"utils/distributions.py"}
      [] OTHER -> {}

\* the log of the calls of module `random` after a stage: the functions that
\* the code the stage runs can call, which is the generator's file, the
\* helpers it imports and database.py
Drawn(stage) ==
    Append(call_local.random,
           [step |-> stage,
            calls |-> UNION {RandomCalls(file) :
                                file \in {StageFile(stage), "database.py"}
                                         \cup Imports(StageFile(stage))}])

InitMain ==
    /\ call_pc = "main"
    /\ call_args \in Configs
    /\ call_local = [inserted |-> << >>, teams |-> 0, users |-> 0, random |-> << >>]
    /\ call_result = None
    /\ IdleOthers

\* a stage that ends with db.insert_many(table, rows) and goes on to `next`
Inserted(table, next) ==
    /\ call_pc' = next
    /\ call_local' = [call_local EXCEPT !.inserted = Append(@, table),
                                        !.random = Drawn(call_pc)]
    /\ UNCHANGED call_result

\* a stage that raises: the exception leaves main()
Raised(exception) ==
    /\ call_pc' = "raised"
    /\ call_result' = exception
    /\ call_local' = [call_local EXCEPT !.random = Drawn(call_pc)]

\* main(), up to the first stage: random.seed, os.makedirs, clear_database and
\* initialize_schema; no value of the configuration is examined
StartMain ==
    /\ call_pc = "main"
    /\ call_pc' = "organizations"
    /\ call_local' = [call_local EXCEPT !.random =
                        Append(@, [step |-> "main", calls |-> RandomCalls("main.py")])]
    /\ UNCHANGED <<call_args, call_result>>

\* generate_organizations(config) and its insert
StageOrganizations ==
    /\ call_pc = "organizations"
    /\ Inserted("organizations", "teams")
    /\ UNCHANGED call_args

\* generate_teams(...) and its insert; random.choice(departments) raises for
\* an empty department table when teams are still to be added
StageTeams ==
    /\ call_pc = "teams"
    /\ IF call_args.DEPARTMENT_DISTRIBUTION = {} /\ call_args.NUM_TEAMS > 0
       THEN Raised("IndexError")
       ELSE /\ call_pc' = "users"
            /\ call_local' = [call_local EXCEPT
                    !.inserted = Append(@, "teams"),
                    !.random = Drawn("teams"),
                    !.teams = TeamCount(call_args.NUM_TEAMS,
                                        call_args.DEPARTMENT_DISTRIBUTION)]
            /\ UNCHANGED call_result
    /\ UNCHANGED call_args

\* generate_users(...) and its insert; the loop body runs once per user, and
\* there weighted_choice(role_distribution) raises for an empty role table and
\* random.choices(departments, ...) for an empty department table
StageUsers ==
    /\ call_pc = "users"
    /\ IF call_args.NUM_USERS > 0 /\ call_args.ROLE_DISTRIBUTION = {}
       THEN Raised("ValueError")
       ELSE IF call_args.NUM_USERS > 0 /\ call_args.DEPARTMENT_DISTRIBUTION = {}
       THEN Raised("IndexError")
       ELSE /\ call_pc' = "team_memberships"
            /\ call_local' = [call_local EXCEPT
                    !.inserted = Append(@, "users"),
                    !.random = Drawn("users"),
                    !.users = call_args.NUM_USERS]
            /\ UNCHANGED call_result
    /\ UNCHANGED call_args

\* generate_team_memberships(...) and its insert
StageTeamMemberships ==
    /\ call_pc = "team_memberships"
    /\ Inserted("team_memberships", "projects")
    /\ UNCHANGED call_args

\* generate_projects(...) and its insert; the first project of the first team
\* needs an owner, and without users `users[0]["id"]` raises
StageProjects ==
    /\ call_pc = "projects"
    /\ IF call_local.teams > 0 /\ call_args.NUM_PROJECTS > 0 /\ call_local.users = 0
       THEN Raised("IndexError")
       ELSE Inserted("projects", "sections")
    /\ UNCHANGED call_args

\* generate_sections(projects) and its insert
StageSections ==
    /\ call_pc = "sections"
    /\ Inserted("sections", "tasks")
    /\ UNCHANGED call_args

\* generate_tasks(...) and its insert; with projects to fill, the draw
\* random.choice(available_assignees) raises when the draws of is_active left
\* a project's team without an assignee
StageTasks ==
    /\ call_pc = "tasks"
    /\ \/ Inserted("tasks", "subtasks")
       \/ /\ call_local.teams > 0 /\ call_args.NUM_PROJECTS > 0
          /\ Raised("IndexError")
    /\ UNCHANGED call_args

\* generate_subtasks(...) and its insert into the table of the tasks
StageSubtasks ==
    /\ call_pc = "subtasks"
    /\ Inserted("tasks", "comments")
    /\ UNCHANGED call_args

\* generate_comments(...) over tasks + subtasks and its insert
StageComments ==
    /\ call_pc = "comments"
    /\ Inserted("comments", "custom_field_definitions")
    /\ UNCHANGED call_args

\* generate_custom_field_definitions(org_id) and its insert
StageCustomFieldDefinitions ==
    /\ call_pc = "custom_field_definitions"
    /\ Inserted("custom_field_definitions", "custom_field_values")
    /\ UNCHANGED call_args

\* generate_custom_field_values(...) and its insert
StageCustomFieldValues ==
    /\ call_pc = "custom_field_values"
    /\ Inserted("custom_field_values", "tags")
    /\ UNCHANGED call_args

\* generate_tags(org_id) and its insert
StageTags ==
    /\ call_pc = "tags"
    /\ Inserted("tags", "task_tags")
    /\ UNCHANGED call_args

\* generate_task_tags(...) and its insert; get_stats, validate_integrity and
\* db.close() follow, and main returns
StageTaskTags ==
    /\ call_pc = "task_tags"
    /\ Inserted("task_tags", "returned")
    /\ UNCHANGED call_args

NextMain ==
    \/ (StartMain /\ UNCHANGED varsOthers)
    \/ (StageOrganizations /\ UNCHANGED varsOthers)
    \/ (StageTeams /\ UNCHANGED varsOthers)
    \/ (StageUsers /\ UNCHANGED varsOthers)
    \/ (StageTeamMemberships /\ UNCHANGED varsOthers)
    \/ (StageProjects /\ UNCHANGED varsOthers)
    \/ (StageSections /\ UNCHANGED varsOthers)
    \/ (StageTasks /\ UNCHANGED varsOthers)
    \/ (StageSubtasks /\ UNCHANGED varsOthers)
    \/ (StageComments /\ UNCHANGED varsOthers)
    \/ (StageCustomFieldDefinitions /\ UNCHANGED varsOthers)
    \/ (StageCustomFieldValues /\ UNCHANGED varsOthers)
    \/ (StageTags /\ UNCHANGED varsOthers)
    \/ (StageTaskTags /\ UNCHANGED varsOthers)

SpecMain == InitMain /\ [][NextMain]_vars

\* C19: under a configuration error (NUM_USERS = 0, an empty distribution
\* table) the run fails before any generation stage: no stage has inserted its
\* rows and the run does not return.
C19_ConfigErrorFailsFast ==
    (\/ call_args.NUM_USERS = 0
     \/ call_args.DEPARTMENT_DISTRIBUTION = {}
     \/ call_args.ROLE_DISTRIBUTION = {})
        => /\ call_local.inserted = << >>
           /\ call_pc # "returned"

\* C25: during a run of main the random stream is seeded exactly once, before
\* the first generation stage starts, and no stage or helper reseeds it: main
\* has called nothing of module `random` before its call of random.seed, the
\* first entry of the log is that call, and the code that any stage runs
\* after it, the generator, the helpers it imports and the database, has no
\* call of random.seed.
C25_SeededOnceBeforeStages ==
    /\ call_pc = "main" => call_local.random = << >>
    /\ call_pc # "main" =>
        /\ call_local.random # << >>
        /\ call_local.random[1] = [step |-> "main", calls |-> {"seed"}]
        /\ \A k \in 2 .. Len(call_local.random) :
                /\ call_local.random[k].step # "main"
                /\ "seed" \notin call_local.random[k].calls

\* C25 witness: main has returned after random.seed and its thirteen stages,
\* and the stage of the tasks ran code that calls random.shuffle and
\* random.random
C25_Witness ==
    /\ call_pc = "returned"
    /\ Len(call_local.random) = 14
    /\ \E k \in 2 .. 14 :
            /\ call_local.random[k].step = "tasks"
            /\ {"shuffle", "random"} \subseteq call_local.random[k].calls

----------------------------------------------------------------------------
(* generators/projects.py generate_projects: the owner of a project of one
   team, for the users and memberships the earlier stages can hand over *)

MaxOwnerUsers == 2

OwnerRoles == {"junior", "senior", "lead"}

\* the user records: ids 1 .. n in list order
OwnerUserLists ==
    UNION {{[i \in 1 .. n |-> [id |-> i, role |-> r[i], is_active |-> a[i]]] :
                r \in [1 .. n -> OwnerRoles], a \in [1 .. n -> BOOLEAN]} :
           n \in 0 .. MaxOwnerUsers}

\* the memberships of the project's team that generate_team_memberships can
\* return for these users: a lead of the first phase is a senior or lead user
\* and there are at most two; the repair step leaves a team with members with
\* a lead, a senior or lead member if there is one
OwnerMemberships(user_list) ==
    LET n == Len(user_list)
        senior(i) == user_list[i].role \in {"senior", "lead"}
        ok(st) ==
            LET leads == {i \in 1 .. n : st[i] = "lead"}
                mems == {i \in 1 .. n : st[i] # "none"}
            IN  /\ mems # {} => leads # {}
                /\ Cardinality(leads) <= 2
                /\ \A i \in leads :
                        senior(i) \/ (leads = {i} /\ \A j \in mems : ~senior(j))
    IN  {{[team_id |-> "t1", user_id |-> user_list[i].id, role |-> st[i]] :
                i \in {j \in 1 .. n : st[j] # "none"}} :
         st \in {f \in [1 .. n -> {"none", "member", "lead"}] : ok(f)}}

\* team_leads[team_id]: the lead user ids of the team, or all its members when
\* it has no lead
team_leads(team_id, team_memberships) ==
    LET leads == {m.user_id : m \in {x \in team_memberships :
                                        x.team_id = team_id /\ x.role = "lead"}}
    IN  IF leads = {}
        THEN {m.user_id : m \in {x \in team_memberships : x.team_id = team_id}}
        ELSE leads

\* senior_user_ids: the active users with a senior or lead role
senior_user_ids(user_list) ==
    {user_list[i].id : i \in {j \in 1 .. Len(user_list) :
                            user_list[j].role \in {"senior", "lead"} /\ user_list[j].is_active}}

\* possible_owners, after its two fallbacks
possible_owners(team_id, team_memberships, user_list) ==
    LET first == team_leads(team_id, team_memberships) \cap senior_user_ids(user_list)
        second == IF first = {} THEN team_leads(team_id, team_memberships) ELSE first
    IN  IF second = {} THEN senior_user_ids(user_list) ELSE second

InitOwner ==
    /\ call_pc = "generate_projects"
    /\ \E user_list \in OwnerUserLists :
         \E team_memberships \in OwnerMemberships(user_list) :
            call_args = [team_id |-> "t1", users |-> user_list,
                         team_memberships |-> team_memberships]
    /\ call_local = [possible_owners |-> {}]
    /\ call_result = None
    /\ IdleOthers

\* owner_id = random.choice(possible_owners) if possible_owners else users[0]["id"]
SelectOwner ==
    /\ call_pc = "generate_projects"
    /\ LET owners == possible_owners(call_args.team_id, call_args.team_memberships,
                                     call_args.users)
       IN  /\ call_local' = [possible_owners |-> owners]
           /\ IF owners # {}
              THEN call_pc' = "returned" /\ call_result' \in owners
              ELSE IF call_args.users = << >>
              THEN call_pc' = "raised" /\ call_result' = "IndexError"
              ELSE call_pc' = "returned" /\ call_result' = call_args.users[1].id
    /\ UNCHANGED call_args

NextOwner == SelectOwner /\ UNCHANGED varsOthers

SpecOwner == InitOwner /\ [][NextOwner]_vars

\* C20: with at least one user the owner_id of a project is set, and it is drawn
\* from the first non-empty tier of (1) the leads of the project's team whose
\* user role is senior or lead, (2) the leads of that team, (3) the users with
\* a senior or lead role, (4) all users.
C20_OwnerFromFirstTier ==
    LET user_list == call_args.users
        ids == {user_list[i].id : i \in 1 .. Len(user_list)}
        seniors == {user_list[i].id : i \in {j \in 1 .. Len(user_list) :
                                            user_list[j].role \in {"senior", "lead"}}}
        leads == {m.user_id : m \in {x \in call_args.team_memberships :
                        x.team_id = call_args.team_id /\ x.role = "lead"}}
        tier == IF leads \cap seniors # {} THEN leads \cap seniors
                ELSE IF leads # {} THEN leads
                ELSE IF seniors # {} THEN seniors
                ELSE ids
    IN  (call_pc \in {"returned", "raised"} /\ Len(user_list) >= 1) =>
            /\ call_pc = "returned"
            /\ call_result \in tier

----------------------------------------------------------------------------
(* generators/projects.py generate_projects: created_at and due_date of a
   project.  Day 0 of the time line is Monday 2024-01-01. *)

\* the years of the time line, counted from 2024
Years == 0 .. 3

\* days of year y: 2024 and 2028 are leap years
DaysInYear(y) == IF y % 4 = 0 THEN 366 ELSE 365

\* the day number of January 1 of year y
RECURSIVE YearStart(_)
YearStart(y) == IF y = 0 THEN 0 ELSE YearStart(y - 1) + DaysInYear(y - 1)

\* datetime.year
YearOf(dt) == CHOOSE y \in Years :
                /\ YearStart(y) <= DateOf(dt)
                /\ DateOf(dt) < YearStart(y) + DaysInYear(y)

\* quarter_ends: datetime(year, 3, 31), (year, 6, 30), (year, 9, 30) and
\* (year, 12, 31), each at 00:00
quarter_ends(year) ==
    LET leap == DaysInYear(year) - 365
    IN  <<(YearStart(year) + 89 + leap) * Day, (YearStart(year) + 180 + leap) * Day,
          (YearStart(year) + 272 + leap) * Day, (YearStart(year) + 364 + leap) * Day>>

\* future_ends with the quarter end of created_at itself kept
future_ends_inclusive(created_at) ==
    SelectSeq(quarter_ends(YearOf(created_at)), LAMBDA d : d >= created_at)

\* future_ends = [d for d in quarter_ends if d > created_at]
future_ends(created_at) ==
    SelectSeq(quarter_ends(YearOf(created_at)), LAMBDA d : d > created_at)

\* the due date of a project: due_roll is random.random() in percent points,
\* pick the index drawn by random.choice(future_ends[:2]), days the draw of
\* random.randint(30, 90)
project_due_date(created_at, due_roll, pick, days) ==
    IF due_roll < 60
    THEN IF future_ends(created_at) # << >>
         THEN future_ends(created_at)[pick]
         ELSE created_at + days * Day
    ELSE None

\* the created_at and due_date fields of the record generate_project returns
ProjectDatesOf(team, sim_start, sim_end, random_seconds, due_roll, pick, days) ==
    LET team_created == strptime(team.created_at)
        created_at == random_date_between(Max(team_created, sim_start),
                                          sim_end - 7 * Day, random_seconds)
        due_date == project_due_date(created_at, due_roll, pick, days)
    IN  [team_id |-> team.id,
         created_at |-> format_timestamp(created_at),
         due_date |-> IF due_date # None THEN format_date(DateOf(due_date)) ELSE None]

\* config.SIMULATION_END for which SIMULATION_START is the second before
\* 2024-03-31 00:00 or before 2024-12-31 00:00, and one tick later
ProjectNowChoices ==
    {(d + HISTORY_MONTHS * 30) * Day - Second + t : d \in {90, 365}, t \in {0, 1}}

\* generate_teams: created_at of a team, the ends of
\* [ORG_CREATED_AT, ORG_CREATED_AT + 180 days]
ProjectTeams(now) ==
    {[id |-> 1, created_at |-> format_timestamp(ORG_CREATED_AT(now))],
     [id |-> 1, created_at |-> format_timestamp(ORG_CREATED_AT(now) + 180 * Day)]}

\* random.randint(0, int(delta.total_seconds())): the first three and the last
ProjectSeconds(start, end) ==
    {x \in {0, 1, 2, (end - start) \div Second} : x \in RandomSeconds(start, end)}

InitProjectDates ==
    /\ call_pc = "generate_projects_dates"
    /\ \E now \in ProjectNowChoices : \E team \in ProjectTeams(now) :
            call_args = [team |-> team, simulation_start |-> SIMULATION_START(now),
                         simulation_end |-> now]
    /\ call_local = [due_roll |-> None, pick |-> None]
    /\ call_result = None
    /\ IdleOthers

\* one iteration of the project loop, for its dates
GenerateProjectDates ==
    /\ call_pc = "generate_projects_dates"
    /\ LET start == Max(strptime(call_args.team.created_at), call_args.simulation_start)
           end == call_args.simulation_end - 7 * Day
       IN  \E random_seconds \in ProjectSeconds(start, end), due_roll \in {0, 60},
              pick \in 1 .. 2, days \in {30, 90} :
                /\ pick <= Max(1, Len(future_ends(
                                random_date_between(start, end, random_seconds))))
                /\ call_local' = [due_roll |-> due_roll, pick |-> pick]
                /\ call_result' = ProjectDatesOf(call_args.team,
                        call_args.simulation_start, call_args.simulation_end,
                        random_seconds, due_roll, pick, days)
    /\ call_pc' = "returned"
    /\ UNCHANGED call_args

NextProjectDates == GenerateProjectDates /\ UNCHANGED varsOthers

SpecProjectDates == InitProjectDates /\ [][NextProjectDates]_vars

\* C21: a project's created_at is not earlier than its team's created_at, and
\* its due_date, when present, is a later calendar day than created_at, in the
\* quarter-end branch and in the created_at + 30..90 days branch.
C21_ProjectDatesOrdered ==
    call_pc = "returned" =>
        /\ call_result.created_at >= call_args.team.created_at
        /\ call_result.due_date # None =>
                call_result.due_date > DateOf(strptime(call_result.created_at))

\* C21 witness: a project created in the first second of a quarter-end day
\* with a due date, and a project created on December 31 with a due date
C21_Witness ==
    /\ call_pc = "returned"
    /\ call_result.due_date # None
    /\ \/ strptime(call_result.created_at) = 90 * Day
       \/ DateOf(strptime(call_result.created_at)) = 365

----------------------------------------------------------------------------
(* generators/comments.py generate_comments, for one task of the pipeline *)

\* floor(x * a / b) without the product
MulDiv(x, a, b) == (x \div b) * a + ((x % b) * a) \div b

\* comment_window_end of comment i (from 0) of num_comments:
\* task_created + (task_end - task_created) * min(1.0, (i + 1) / (num_comments + 1) + 0.2)
comment_window_end(task_created, task_end, i, num_comments) ==
    task_created + MulDiv(task_end - task_created,
                          Min(5 * (num_comments + 1), 5 * (i + 1) + (num_comments + 1)),
                          5 * (num_comments + 1))

\* the tasks generate_tasks hands over for a project created at
\* SIMULATION_START: drawn at either end of the window, with and without the
\* hour and minute adjustment, open or completed after the shortest cycle
CommentTasks(now) ==
    LET project == [id |-> uuid4(1),
                    created_at |-> format_timestamp(SIMULATION_START(now))]
        start == Max(strptime(project.created_at), SIMULATION_START(now))
    IN  {TaskOf(project, now, 0, uuid4(2), first, << >>, adjust, hm[1], hm[2],
                done_roll, 40, Day, 1, 1, 15, 1) :
            first \in SecondsDraws(start, now - Hour), adjust \in BOOLEAN,
            hm \in HourMinuteDraws, done_roll \in {0, 99}}

\* random.random() and the randint of comment_count_for_task: a draw of every
\* branch and every draw of the randint, which give every count from 0 to 25
CommentRolls == {0, 30, 70, 90}
CommentPicks == 0 .. 99

\* the seconds drawn for comment i of num_comments: both ends of the range for
\* the first three comments and the last one, the last second between them
CommentSeconds(i, num_comments, start, end) ==
    IF i < 3 \/ i = num_comments - 1 THEN SecondsDraws(start, end)
    ELSE LastSecond(start, end)

\* task_end: completed_at of the task, or simulation_end
TaskEnd(task, now) ==
    IF task.completed_at # None THEN strptime(task.completed_at) ELSE now

InitComments ==
    /\ call_pc = "generate_comments"
    /\ \E now \in NowChoices : \E task \in CommentTasks(now) :
            call_args = [task |-> task, simulation_end |-> now]
    /\ call_local = [num_comments |-> None, window_ends |-> << >>, comments |-> << >>]
    /\ call_result = None
    /\ IdleOthers

\* num_comments = comment_count_for_task(); a task without comments is skipped
StartComments ==
    /\ call_pc = "generate_comments"
    /\ \E roll \in CommentRolls, pick \in CommentPicks :
         LET n == comment_count_for_task(roll, pick)
         IN  /\ call_local' = [call_local EXCEPT !.num_comments = n]
             /\ call_pc' = IF n = 0 THEN "return_comments" ELSE "comments_loop"
    /\ UNCHANGED <<call_args, call_result>>

\* one iteration of `for i in range(num_comments)`
GenerateComment ==
    /\ call_pc = "comments_loop"
    /\ LET i == Len(call_local.comments)
           task == call_args.task
           task_created == strptime(task.created_at)
           window_end == comment_window_end(task_created,
                            TaskEnd(task, call_args.simulation_end),
                            i, call_local.num_comments)
       IN  \E random_seconds \in CommentSeconds(i, call_local.num_comments,
                                                 task_created, window_end) :
                call_local' = [call_local EXCEPT
                    !.window_ends = Append(@, window_end),
                    !.comments = Append(@,
                        [task_id |-> task.id,
                         created_at |-> format_timestamp(
                            random_date_between(task_created, window_end,
                                                random_seconds))])]
    /\ call_pc' = IF Len(call_local.comments) + 1 >= call_local.num_comments
                  THEN "return_comments" ELSE "comments_loop"
    /\ UNCHANGED <<call_args, call_result>>

\* return comments
ReturnComments ==
    /\ call_pc = "return_comments"
    /\ call_result' = call_local.comments
    /\ call_pc' = "returned"
    /\ UNCHANGED <<call_args, call_local>>

NextComments ==
    \/ (StartComments /\ UNCHANGED varsOthers)
    \/ (GenerateComment /\ UNCHANGED varsOthers)
    \/ (ReturnComments /\ UNCHANGED varsOthers)

SpecComments == InitComments /\ [][NextComments]_vars

\* C23: every comment's created_at lies within [task.created_at,
\* task.completed_at] when the task has a completed_at, and within
\* [task.created_at, simulation_end] otherwise.
C23_CommentWithinTaskWindow ==
    \A k \in 1 .. Len(call_local.comments) :
        LET c == call_local.comments[k]
            task == call_args.task
        IN  /\ c.created_at >= task.created_at
            /\ IF task.completed_at # None
               THEN c.created_at <= task.completed_at
               ELSE strptime(c.created_at) <= call_args.simulation_end

\* C29: the comments of a task have non-decreasing created_at in generation
\* order, and the upper bound of the sampling window of comment i+1 is not
\* smaller than that of comment i.
C29_CommentsMonotone ==
    /\ \A k \in 1 .. Len(call_local.comments) - 1 :
            call_local.comments[k].created_at <= call_local.comments[k + 1].created_at
    /\ \A k \in 1 .. Len(call_local.window_ends) - 1 :
            call_local.window_ends[k] <= call_local.window_ends[k + 1]

----------------------------------------------------------------------------
(* generators/teams.py generate_teams: the team quotas of the departments *)

MaxNumTeams == 5

\* department distributions, by the weights of their departments in dict
\* order and in percent points; the first is config.DEPARTMENT_DISTRIBUTION
DepartmentWeights ==
    {<<40, 15, 15, 15, 10, 5>>, <<100>>, <<50, 50>>, <<34, 33, 33>>, <<80, 10, 10>>}

\* max(1, int(num_teams * (weight / total_weight))) per department
InitialTeamCounts(num_teams, weights) ==
    [d \in 1 .. Len(weights) |->
        Max(1, (num_teams * weights[d]) \div Sum(weights))]

\* max(team_counts, key=team_counts.get): the first department of the largest
\* count
MaxDept(team_counts) ==
    CHOOSE d \in 1 .. Len(team_counts) :
        /\ \A e \in 1 .. Len(team_counts) : team_counts[e] <= team_counts[d]
        /\ \A e \in 1 .. d - 1 : team_counts[e] < team_counts[d]

\* the departments of the teams made by the loop over team_counts.items()
RECURSIVE TeamsOfCounts(_, _)
TeamsOfCounts(team_counts, d) ==
    IF d > Len(team_counts) THEN << >>
    ELSE [i \in 1 .. team_counts[d] |-> [department |-> d]]
            \o TeamsOfCounts(team_counts, d + 1)

InitTeams ==
    /\ call_pc = "generate_teams"
    /\ call_args \in [num_teams : 1 .. MaxNumTeams, weights : DepartmentWeights]
    /\ call_local = [team_counts |-> << >>]
    /\ call_result = None
    /\ IdleOthers

\* generate_teams, up to the adjustment loops
TeamQuotas ==
    /\ call_pc = "generate_teams"
    /\ call_local' = [team_counts |-> InitialTeamCounts(call_args.num_teams,
                                                        call_args.weights)]
    /\ call_pc' = "add_loop"
    /\ UNCHANGED <<call_args, call_result>>

\* `while current_total < num_teams`: one more team for a random department
AddTeam ==
    /\ call_pc = "add_loop"
    /\ IF Sum(call_local.team_counts) < call_args.num_teams
       THEN /\ \E dept \in 1 .. Len(call_local.team_counts) :
                call_local' = [call_local EXCEPT !.team_counts[dept] = @ + 1]
            /\ UNCHANGED call_pc
       ELSE /\ call_pc' = "remove_loop"
            /\ UNCHANGED call_local
    /\ UNCHANGED <<call_args, call_result>>

\* `while current_total > num_teams`: one team fewer for the largest
\* department, or break when it has one team
RemoveTeam ==
    /\ call_pc = "remove_loop"
    /\ LET max_dept == MaxDept(call_local.team_counts)
       IN  IF Sum(call_local.team_counts) > call_args.num_teams
              /\ call_local.team_counts[max_dept] > 1
           THEN /\ call_local' = [call_local EXCEPT !.team_counts[max_dept] = @ - 1]
                /\ UNCHANGED call_pc
           ELSE /\ call_pc' = "teams_loop"
                /\ UNCHANGED call_local
    /\ UNCHANGED <<call_args, call_result>>

\* the loop over the departments and `return teams`
ReturnTeams ==
    /\ call_pc = "teams_loop"
    /\ call_result' = TeamsOfCounts(call_local.team_counts, 1)
    /\ call_pc' = "returned"
    /\ UNCHANGED <<call_args, call_local>>

NextTeams ==
    \/ (TeamQuotas /\ UNCHANGED varsOthers)
    \/ (AddTeam /\ UNCHANGED varsOthers)
    \/ (RemoveTeam /\ UNCHANGED varsOthers)
    \/ (ReturnTeams /\ UNCHANGED varsOthers)

SpecTeams == InitTeams /\ [][NextTeams]_vars

\* C24: after the adjustment loops the team quotas sum to exactly num_teams and
\* exactly num_teams teams are returned, for every num_teams >= 1 and every
\* non-empty department distribution, num_teams below the number of
\* departments included.
C24_ExactlyNumTeams ==
    /\ call_pc = "teams_loop" => Sum(call_local.team_counts) = call_args.num_teams
    /\ call_pc = "returned" => Len(call_result) = call_args.num_teams

----------------------------------------------------------------------------
(* generate_tasks (generators/tasks.py): how many parent tasks it returns   *)
(* and the section each one is put in.  A task is followed through its      *)
(* project, its section, its completion flag and its parent; the dates and  *)
(* the texts take no part in the count or in the choice of the section.     *)

\* num_tasks of the calls: none, fewer than projects, fewer than 5 per
\* project, and 5 per project and more
TaskTotals == {0, 1, 3, 6, 11}

\* a section record
SectionOf(id, project_id, position) ==
    [id |-> id, project_id |-> project_id, position |-> position]

\* the projects and the sections of the calls, the sections not always in the
\* order of their positions; in the last input the first project has no
\* section
SectionInputs ==
    {[projects |-> <<[id |-> uuid4(1)]>>,
      sections |-> <<SectionOf(uuid4(11), uuid4(1), 0)>>],
     [projects |-> <<[id |-> uuid4(1)]>>,
      sections |-> <<SectionOf(uuid4(12), uuid4(1), 1), SectionOf(uuid4(11), uuid4(1), 0)>>],
     [projects |-> <<[id |-> uuid4(1)], [id |-> uuid4(2)]>>,
      sections |-> <<SectionOf(uuid4(11), uuid4(1), 0), SectionOf(uuid4(21), uuid4(2), 0),
                     SectionOf(uuid4(13), uuid4(1), 2), SectionOf(uuid4(12), uuid4(1), 1)>>],
     [projects |-> <<[id |-> uuid4(1)], [id |-> uuid4(2)]>>,
      sections |-> <<SectionOf(uuid4(21), uuid4(2), 0), SectionOf(uuid4(22), uuid4(2), 1)>>]}

\* the active users of the calls: none, or one
ActiveUserInputs == {<< >>, <<uuid4(31)>>}

\* project_sections[pid]: the sections of the project, sorted by position
project_sections(section_list, pid) ==
    LET mine == {k \in 1 .. Len(section_list) : section_list[k].project_id = pid}
        rank(k) == Cardinality({j \in mine :
                        section_list[j].position < section_list[k].position
                        \/ (section_list[j].position = section_list[k].position /\ j < k)})
    IN  [n \in 1 .. Cardinality(mine) |->
            section_list[CHOOSE k \in mine : rank(k) = n - 1]]

\* non_done_sections: all sections but the last, or the only section
non_done_sections(proj_sections) ==
    IF Len(proj_sections) > 1
    THEN SubSeq(proj_sections, 1, Len(proj_sections) - 1) ELSE proj_sections

\* the section of a task: the last one when it is completed, else the pick of
\* random.choices among non_done_sections (every weight is positive)
task_section(proj_sections, completed, pick) ==
    IF completed THEN proj_sections[Len(proj_sections)]
    ELSE non_done_sections(proj_sections)[pick]

InitTaskSections ==
    /\ call_pc = "generate_tasks"
    /\ call_args \in {[num_tasks |-> n, projects |-> input.projects,
                       sections |-> input.sections, active_user_ids |-> active] :
                        n \in TaskTotals, input \in SectionInputs,
                        active \in ActiveUserInputs}
    /\ call_local = << >>
    /\ call_result = None
    /\ IdleOthers

\* generate_tasks up to its loop: the lookups, distribute_among and
\* random.shuffle
DistributeTasks ==
    /\ call_pc = "generate_tasks"
    /\ \E picks \in DistributePicks(call_args.num_tasks, Len(call_args.projects), 5) :
       \E counts \in Shuffles(distribute_among(call_args.num_tasks,
                                               Len(call_args.projects), 5, picks)) :
            call_local' = [project_task_counts |-> counts, pidx |-> 1, i |-> 0,
                           tasks |-> << >>]
    /\ call_pc' = "projects_loop"
    /\ UNCHANGED <<call_args, call_result>>

\* one iteration of `for i in range(task_count)`; the team of the project has
\* an active member or available_assignees falls back to the active users, so
\* it is empty when no user is active, and random.choice raises IndexError
GenerateTaskRow ==
    /\ call_pc = "projects_loop"
    /\ call_local.pidx <= Len(call_args.projects)
    /\ LET project == call_args.projects[call_local.pidx]
           proj_sections == project_sections(call_args.sections, project.id)
       IN  /\ proj_sections # << >>
           /\ call_local.i < call_local.project_task_counts[call_local.pidx]
           /\ IF call_args.active_user_ids = << >>
              THEN /\ call_pc' = "raised"
                   /\ call_result' = "IndexError"
                   /\ UNCHANGED call_local
              ELSE /\ \E completed \in BOOLEAN :
                      \E pick \in 1 .. Len(non_done_sections(proj_sections)) :
                        call_local' =
                            [call_local EXCEPT
                                !.tasks = Append(@,
                                    [id |-> uuid4(100 + Len(call_local.tasks)),
                                     project_id |-> project.id,
                                     section_id |-> task_section(proj_sections,
                                                        completed, pick).id,
                                     completed |-> IF completed THEN 1 ELSE 0,
                                     position |-> call_local.i,
                                     parent_task_id |-> None]),
                                !.i = @ + 1]
                   /\ UNCHANGED <<call_pc, call_result>>
    /\ UNCHANGED call_args

\* the next pair of zip(projects, project_task_counts): the tasks of the
\* project are made, or the project has no section (`continue`)
NextTaskProject ==
    /\ call_pc = "projects_loop"
    /\ call_local.pidx <= Len(call_args.projects)
    /\ LET project == call_args.projects[call_local.pidx]
       IN  \/ project_sections(call_args.sections, project.id) = << >>
           \/ call_local.i = call_local.project_task_counts[call_local.pidx]
    /\ call_local' = [call_local EXCEPT !.pidx = @ + 1, !.i = 0]
    /\ UNCHANGED <<call_pc, call_args, call_result>>

\* return tasks
ReturnTaskRows ==
    /\ call_pc = "projects_loop"
    /\ call_local.pidx > Len(call_args.projects)
    /\ call_result' = call_local.tasks
    /\ call_pc' = "returned"
    /\ UNCHANGED <<call_args, call_local>>

NextTaskSections ==
    \/ (DistributeTasks /\ UNCHANGED varsOthers)
    \/ (GenerateTaskRow /\ UNCHANGED varsOthers)
    \/ (NextTaskProject /\ UNCHANGED varsOthers)
    \/ (ReturnTaskRows /\ UNCHANGED varsOthers)

SpecTaskSections == InitTaskSections /\ [][NextTaskSections]_vars

\* C30: when there is a project and every project has a section,
\* generate_tasks returns, and returns exactly num_tasks parent tasks, for
\* every num_tasks >= 0, those below 5 per project included; each of them has
\* parent_task_id null and the section_id of a section of its own project, and
\* a completed task is in the last section of its project.
C30_ExactlyNumTasksInOwnSections ==
    (/\ Len(call_args.projects) >= 1
     /\ \A p \in 1 .. Len(call_args.projects) :
            project_sections(call_args.sections, call_args.projects[p].id) # << >>)
    => /\ call_pc # "raised"
       /\ call_pc = "returned" =>
            /\ Len(call_result) = call_args.num_tasks
            /\ \A k \in 1 .. Len(call_result) :
                    LET task == call_result[k]
                        proj_sections == project_sections(call_args.sections,
                                                          task.project_id)
                    IN  /\ task.parent_task_id = None
                        /\ \E n \in 1 .. Len(proj_sections) :
                                proj_sections[n].id = task.section_id
                        /\ task.completed = 1 =>
                                task.section_id = proj_sections[Len(proj_sections)].id

----------------------------------------------------------------------------
(* Runs of main (main.py): one run, or two with the same configuration and  *)
(* the same RANDOM_SEED, one after the other: both write                    *)
(* config.DATABASE_PATH, which main clears first.  A run stores every       *)
(* record of every table through Database.insert_many; a record             *)
(* is followed through its identifier, its foreign keys, its timestamps and *)
(* the fields later stages read (role, department, is_active, status,       *)
(* archived, position, completed, and the keywords of a name that later     *)
(* code tests for).  The other texts are left out.  What a generator draws  *)
(* from the `random` stream is an input of its stage, in the order of the   *)
(* generator's loops; uuid.uuid4() reads os.urandom and random.seed has no  *)
(* part in it.                                                              *)

\* the scale of the runs: what they take for config.NUM_TEAMS, NUM_USERS,
\* NUM_PROJECTS and NUM_TASKS, which config.py sets to 35, 500, 100 and 5000.
\* The smaller scale has as many teams as departments.  The larger one has
\* more teams than the shares of the departments add up to, so that
\* generate_teams adds teams by its draws, and more than ten active users, so
\* that list(active_user_ids)[:10] cuts the list.
RunTeams == 6
RunUsers == 8
RunProjects == 6
RunTasks == 32
ManyTeams == 9
ManyUsers == 12
ManyProjects == 9
ManyTasks == 45

\* the four values as main reads them, at either scale
FewConfig ==
    [NUM_TEAMS |-> RunTeams, NUM_USERS |-> RunUsers, NUM_PROJECTS |-> RunProjects,
     NUM_TASKS |-> RunTasks]
ManyConfig ==
    [NUM_TEAMS |-> ManyTeams, NUM_USERS |-> ManyUsers, NUM_PROJECTS |-> ManyProjects,
     NUM_TASKS |-> ManyTasks]

\* what the runs of a behaviour are given: the configuration, how many times
\* main is run with it, which of the draws of UsersDraws the users stage
\* takes, and whether the tasks draw few comments or so many that insert_many
\* stores them in more than one batch
RunPlans ==
    {FewConfig @@ [runs |-> 2, users |-> "spread", comments |-> "few"],
     FewConfig @@ [runs |-> 1, users |-> "narrow", comments |-> "few"],
     FewConfig @@ [runs |-> 1, users |-> "gone", comments |-> "few"],
     FewConfig @@ [runs |-> 1, users |-> "spread", comments |-> "many"],
     ManyConfig @@ [runs |-> 1, users |-> "spread", comments |-> "few"]}

\* config.DEPARTMENT_DISTRIBUTION: the departments in dict order and their
\* weights in percent points
DEPARTMENT_NAMES == <<"Engineering", "Product", "Marketing", "Sales", "Operations", "HR">>
DEPARTMENT_WEIGHTS == <<40, 15, 15, 15, 10, 5>>

\* random.choices(departments, weights=dept_weights), of a draw in percent
\* points: bisect of the draw in the running sums of the weights, which as
\* floats are 0.4, 0.55, 0.7000000000000001, 0.8500000000000001,
\* 0.9500000000000001 and 1.0, so that a draw of 0.70, of 0.85 and of 0.95
\* stays in the lower department
DepartmentChoice(roll) ==
    IF roll < 40 THEN "Engineering"
    ELSE IF roll < 55 THEN "Product"
    ELSE IF roll <= 70 THEN "Marketing"
    ELSE IF roll <= 85 THEN "Sales"
    ELSE IF roll <= 95 THEN "Operations"
    ELSE "HR"

\* the k-th identifier run r makes next
NewId(r, k) == uuid4_urandom(run_entropy[r], run_uuids[r] + k)

\* the rows without the department, which main strips from the teams and the
\* projects before the insert
Stored(rows) ==
    [k \in 1 .. Len(rows) |->
        [f \in (DOMAIN rows[k]) \ {"department"} |-> rows[k][f]]]

\* list(s) of a set of id strings: the elements in the iteration order of the
\* set, which follows the hashes of the strings and can be any order
SetOrders(S) == Samples(S, Cardinality(S))

\* the orders of SetOrders(S) the runs take when the draws read the first
\* place and the place `last` of the list and no other: one order for every
\* choice of the elements at these places, the other elements ascending
\* around them.  For a set of up to three elements read at both its ends
\* these are all its orders.
ReadOrders(S, last) ==
    IF Cardinality(S) <= 1 THEN {Ascending(S)}
    ELSE IF last <= 1 THEN {<<x>> \o Ascending(S \ {x}) : x \in S}
    ELSE {<<ends[1]>> \o SubSeq(Ascending(S \ {ends[1], ends[2]}), 1, last - 2)
          \o <<ends[2]>>
          \o SubSeq(Ascending(S \ {ends[1], ends[2]}), last - 1, Cardinality(S) - 2) :
            ends \in {pair \in S \X S : pair[1] # pair[2]}}

\* Database.insert_many: the default of batch_size
batch_size == 1000

\* Database.insert_many(table, rows): nothing for an empty list; else
\* executemany for one batch of batch_size rows after the other, and one
\* commit after the last.  `stored` are the rows of the table
RECURSIVE insert_many(_, _)
insert_many(stored, rows) ==
    IF rows = << >> THEN stored
    ELSE insert_many(stored \o SubSeq(rows, 1, Min(batch_size, Len(rows))),
                     SubSeq(rows, Min(batch_size, Len(rows)) + 1, Len(rows)))

\* random.seed(RANDOM_SEED) fixes the results of the calls that follow: a run
\* that was seeded, started at the same clock as another seeded run and has
\* drawn what that run drew up to this stage makes the same calls with the
\* same arguments, and draws what that run drew next
SameStream(r, draws) ==
    \A q \in Runs \ {r} :
        (/\ run_pc[q] \notin {"idle", "seed"}
         /\ run_seeds[q] >= 1
         /\ run_seeds[r] >= 1
         /\ run_now[q] = run_now[r]
         /\ Len(run_draws[q]) > Len(run_draws[r])
         /\ SubSeq(run_draws[q], 1, Len(run_draws[r])) = run_draws[r])
        => draws = run_draws[q][Len(run_draws[r]) + 1]

\* a stage of main: the generator returns rows after the draws of the stage
\* and `uuids` calls of uuid4, main keeps the list of the teams and of the
\* projects, and db.insert_many(table, rows) stores the rows
InsertMany(r, from, to, table, rows, draws, uuids) ==
    /\ run_pc[r] = from
    /\ SameStream(r, draws)
    /\ run_db' = [run_db EXCEPT ![r][table] =
                    insert_many(@, IF from \in DOMAIN run_lists[r] THEN Stored(rows)
                                   ELSE rows)]
    /\ run_lists' = IF from \in DOMAIN run_lists[r]
                    THEN [run_lists EXCEPT ![r][from] = rows]
                    ELSE run_lists
    /\ run_pc' = [run_pc EXCEPT ![r] = to]
    /\ run_draws' = [run_draws EXCEPT ![r] = Append(@, draws)]
    /\ run_uuids' = [run_uuids EXCEPT ![r] = @ + uuids]
    /\ UNCHANGED <<run_plan, run_now, run_entropy, run_seeds>>

\* the process starts and imports config: SIMULATION_END = datetime.now(); the
\* runs before it have ended
StartRun(r) ==
    /\ run_pc[r] = "idle"
    /\ r <= run_plan.runs
    /\ \A q \in Runs : q < r => run_pc[q] \in {"done", "raised"}
    /\ \E now \in ClockChoices : run_now' = [run_now EXCEPT ![r] = now]
    /\ \E entropy \in EntropyOf(r) :
            run_entropy' = [run_entropy EXCEPT ![r] = entropy]
    /\ run_pc' = [run_pc EXCEPT ![r] = "seed"]
    /\ UNCHANGED <<run_plan, run_draws, run_uuids, run_seeds, run_db, run_lists>>

\* random.seed(config.RANDOM_SEED): the stream starts anew
SeedRandom(r) ==
    /\ run_pc[r] = "seed"
    /\ run_draws' = [run_draws EXCEPT ![r] = << >>]
    /\ run_seeds' = [run_seeds EXCEPT ![r] = @ + 1]
    /\ run_pc' = [run_pc EXCEPT ![r] = "organizations"]
    /\ UNCHANGED <<run_plan, run_now, run_entropy, run_uuids, run_db, run_lists>>

\* an exception leaves main: the run ends where it is
RaiseInRun(r, from) ==
    /\ run_pc[r] = from
    /\ run_pc' = [run_pc EXCEPT ![r] = "raised"]
    /\ UNCHANGED <<run_plan, run_now, run_entropy, run_draws, run_uuids, run_seeds,
                   run_db, run_lists>>

----------------------------------------------------------------------------
(* generate_organizations and generate_teams *)

\* generate_organizations
GenerateOrganizations(r) ==
    InsertMany(r, "organizations", "teams", "organizations",
               <<[id |-> NewId(r, 1),
                  created_at |-> format_timestamp(ORG_CREATED_AT(run_now[r]))]>>,
               [stage |-> "organizations"], 1)

\* the second adjustment loop of generate_teams: the largest department loses
\* a team while the total is above num_teams and that department has more
\* than one
RECURSIVE RemoveTeams(_, _)
RemoveTeams(team_counts, num_teams) ==
    IF Sum(team_counts) > num_teams /\ team_counts[MaxDept(team_counts)] > 1
    THEN RemoveTeams([team_counts EXCEPT ![MaxDept(team_counts)] = @ - 1], num_teams)
    ELSE team_counts

\* team_counts after both adjustment loops; adds are the departments drawn by
\* random.choice(departments) in the first one
TeamCounts(num_teams, weights, adds) ==
    RemoveTeams(AddPicks(InitialTeamCounts(num_teams, weights), adds, 1), num_teams)

\* how many departments the first adjustment loop draws
TeamAdds(num_teams, weights) ==
    Max(0, num_teams - Sum(InitialTeamCounts(num_teams, weights)))

\* generate_teams: the teams department by department; draws.seconds[k] is the
\* draw of random_date_between for the k-th team
generate_teams(organization_id, num_teams, org_created_at, entropy, made, draws) ==
    LET depts == TeamsOfCounts(TeamCounts(num_teams, DEPARTMENT_WEIGHTS, draws.adds), 1)
    IN  [k \in 1 .. Len(depts) |->
            [id |-> uuid4_urandom(entropy, made + k),
             organization_id |-> organization_id,
             department |-> DEPARTMENT_NAMES[depts[k].department],
             created_at |-> format_timestamp(
                                random_date_between(org_created_at + Day,
                                                    org_created_at + 180 * Day,
                                                    draws.seconds[k]))]]

\* the draws of the teams stage the runs take: the departments take turns in
\* the first adjustment loop, and the k-th team is created k - 1 days after
\* the start of its window
TeamsDraws(num_teams) ==
    LET adds == [k \in 1 .. TeamAdds(num_teams, DEPARTMENT_WEIGHTS) |->
                    ((k - 1) % Len(DEPARTMENT_NAMES)) + 1]
        made == Sum(TeamCounts(num_teams, DEPARTMENT_WEIGHTS, adds))
    IN  {[stage |-> "teams", adds |-> adds,
          seconds |-> [k \in 1 .. made |-> ((k - 1) % 179) * 86400]]}

\* the teams stage of main
GenerateTeams(r) ==
    /\ run_pc[r] = "teams"
    /\ \E draws \in TeamsDraws(run_plan.NUM_TEAMS) :
         LET rows == generate_teams(run_db[r].organizations[1].id,
                                    run_plan.NUM_TEAMS, ORG_CREATED_AT(run_now[r]),
                                    run_entropy[r], run_uuids[r], draws)
         IN  InsertMany(r, "teams", "users", "teams",
                        rows, draws, Len(rows))

----------------------------------------------------------------------------
(* generate_users *)

\* generate_users: hire_dates is sorted, and the i-th user gets the i-th date;
\* draws[k] are the draws of the k-th iteration: progress_roll of
\* generate_staggered_dates, role_roll and department_roll in percent points,
\* inactive_roll of biased_boolean in tenths of a percent point; the float
\* inactive_rate * 1.5 is 0.07500000000000001, above a draw of 0.075, and
\* inactive_rate * 0.5 is 0.025.  A hire date is held as twice its tick, plus
\* one when it lies between that tick and the next, which keeps the order of
\* the dates; (simulation_end - hire_date).days counts the whole days of the
\* difference, and format_timestamp drops what is below the second
generate_users(num_users, org_created_at, sim_end, entropy, made, draws) ==
    LET start == org_created_at + Day
        end == sim_end - 30 * Day
        hire_dates == sorted(Listed([k \in 1 .. num_users |->
                        LET delta == GrowthDelta(end - start, draws[k].progress_roll)
                        IN  2 * (start + delta[1]) + (IF delta[2] THEN 0 ELSE 1)]))
    IN  [k \in 1 .. num_users |->
            LET days_employed == (2 * sim_end - hire_dates[k]) \div (2 * Day)
                inactive == biased_boolean(draws[k].inactive_roll,
                                           IF days_employed > 365 THEN 76 ELSE 25)
            IN  [id |-> uuid4_urandom(entropy, made + k),
                 role |-> RoleChoice(draws[k].role_roll),
                 department |-> DepartmentChoice(draws[k].department_roll),
                 is_active |-> IF inactive THEN 0 ELSE 1,
                 created_at |-> format_timestamp(hire_dates[k] \div 2)]]

\* the draws of the users stage the runs take, user by user in turns of
\* eight.  The hire dates are drawn out of order.  By `family` either the
\* users come from every department, the first of them is inactive by a draw
\* of 0.075 after more than a year and the others are active ("spread"); or
\* they come from Operations and HR and the third, the fifth and the sixth
\* are inactive ("narrow"); or all are inactive ("gone").
UsersDraws(num_users, family) ==
    LET progress == <<81, 0, 49, 16, 99, 4, 64, 25>>
        role == <<80, 0, 50, 96, 0, 39, 80, 74>>
        every == <<0, 45, 60, 75, 90, 99, 10, 70>>
        turn(k) == ((k - 1) % 8) + 1
        spread == [k \in 1 .. num_users |->
                    [progress_roll |-> progress[turn(k)], role_roll |-> role[turn(k)],
                     department_roll |-> every[turn(k)],
                     inactive_roll |-> IF k = 1 THEN 75 ELSE 999]]
        narrow == [k \in 1 .. num_users |->
                    [progress_roll |-> progress[turn(k)], role_roll |-> role[turn(k)],
                     department_roll |-> IF k % 2 = 1 THEN 95 ELSE 96,
                     inactive_roll |-> IF k \in {3, 5, 6} THEN 0 ELSE 999]]
        gone == [k \in 1 .. num_users |->
                    [progress_roll |-> progress[turn(k)], role_roll |-> role[turn(k)],
                     department_roll |-> every[turn(k)], inactive_roll |-> 0]]
    IN  {[stage |-> "users",
          users |-> IF family = "spread" THEN spread
                    ELSE IF family = "narrow" THEN narrow ELSE gone]}

\* the users stage of main
GenerateUsers(r) ==
    /\ run_pc[r] = "users"
    /\ \E draws \in UsersDraws(run_plan.NUM_USERS, run_plan.users) :
         LET rows == generate_users(run_plan.NUM_USERS, ORG_CREATED_AT(run_now[r]),
                                    run_now[r], run_entropy[r], run_uuids[r],
                                    draws.users)
         IN  InsertMany(r, "users", "team_memberships", "users", rows, draws,
                        Len(rows))

----------------------------------------------------------------------------
(* generate_team_memberships *)

\* step 1, the users of every department handed to its teams: the pairs
\* <<user, team>> as indices, in the order of the loops; picks[d] are the draws
\* of distribute_among for the d-th department
RECURSIVE HomePairs(_, _, _, _)
HomePairs(ts, us, picks, d) ==
    IF d > Len(DeptOrder(us)) THEN << >>
    ELSE LET dept_users == DeptUsers(us, DeptOrder(us)[d])
             dept_teams == DeptTeams(ts, DeptOrder(us)[d])
             sizes == distribute_among(Len(dept_users), Len(dept_teams),
                                       DeptMinimum(dept_users, dept_teams), picks[d])
         IN  [n \in 1 .. Sum(sizes) |->
                 <<dept_users[n], dept_teams[TeamSlot(sizes, n, 1)]>>]
             \o HomePairs(ts, us, picks, d + 1)

\* step 1, the memberships of the pairs from the k-th on: a senior user leads
\* when the team has fewer than two leads and random.random() < 0.3
RECURSIVE HomeMemberships(_, _, _, _, _, _, _, _)
HomeMemberships(ts, us, pairs, home, entropy, made, k, mems) ==
    IF k > Len(pairs) THEN mems
    ELSE LET user == us[pairs[k][1]]
             team == ts[pairs[k][2]]
             join_start == JoinStart(team, user)
             is_lead == /\ IsSenior(user)
                        /\ LeadsOf(mems, team.id) < 2
                        /\ home[k].lead_roll < 30
         IN  HomeMemberships(ts, us, pairs, home, entropy, made, k + 1,
                Append(mems, generate_team_membership(
                    uuid4_urandom(entropy, made + k), team.id, user.id,
                    IF is_lead THEN "lead" ELSE "member",
                    random_date_between(join_start, join_start + 30 * Day,
                                        home[k].seconds))))

\* step 2, the memberships of one cross-functional user: extra.extra_teams is
\* the result of random.sample(other_teams, ...) as indices into teams
CrossRows(ts, user, extra, entropy, made) ==
    [k \in 1 .. Len(extra.extra_teams) |->
        LET team == ts[extra.extra_teams[k]]
            join_start == JoinStart(team, user)
        IN  generate_team_membership(
                uuid4_urandom(entropy, made + k), team.id, user.id, "member",
                random_date_between(join_start, join_start + 90 * Day,
                                    extra.seconds[k]))]

\* step 2 from the k-th cross-functional user on; cross[k].user is the index of
\* the k-th user of random.sample(active_users, ...)
RECURSIVE CrossPhase(_, _, _, _, _, _, _)
CrossPhase(ts, us, cross, entropy, made, k, mems) ==
    IF k > Len(cross) THEN mems
    ELSE LET user == us[cross[k].user]
             skipped == \/ UserTeamCount(mems, user.id) >= 3
                        \/ OtherTeams(ts, mems, user.id) = {}
             rows == IF skipped THEN << >>
                     ELSE CrossRows(ts, user, cross[k], entropy, made + Len(mems))
         IN  CrossPhase(ts, us, cross, entropy, made, k + 1, mems \o rows)

\* step 3, `for team in teams` from the t-th team on
RECURSIVE RepairAll(_, _, _, _)
RepairAll(mems, us, ts, t) ==
    IF t > Len(ts) THEN mems
    ELSE RepairAll(RepairTeam(mems, us, ts[t]), us, ts, t + 1)

\* generate_team_memberships: the three steps
generate_team_memberships(ts, us, entropy, made, draws) ==
    LET pairs == HomePairs(ts, us, draws.picks, 1)
        home == HomeMemberships(ts, us, pairs, draws.home, entropy, made, 1, << >>)
        crossed == CrossPhase(ts, us, draws.cross, entropy, made, 1, home)
    IN  RepairAll(crossed, us, ts, 1)

\* the draws of the memberships stage the runs take: distribute_among gives
\* every unit it draws for to the first team of the department; a user joins
\* n hours after the start of the window and leads when the code lets a draw
\* of 0.29 decide, every third user drawing 0.30; the cross-functional users
\* are the first active users, each joining the last team they are not in
MembershipsDraws(ts, us) ==
    LET units(d) == Len(DeptUsers(us, DeptOrder(us)[d]))
                    - Len(DeptTeams(ts, DeptOrder(us)[d]))
                      * DeptMinimum(DeptUsers(us, DeptOrder(us)[d]),
                                    DeptTeams(ts, DeptOrder(us)[d]))
        picks == [d \in 1 .. Len(DeptOrder(us)) |->
                    IF DeptTeams(ts, DeptOrder(us)[d]) = << >> THEN << >>
                    ELSE [k \in 1 .. Max(0, units(d)) |-> 1]]
        pairs == HomePairs(ts, us, picks, 1)
        active == Ascending(ActiveUsers(us))
        home_team(u) == {pairs[n][2] : n \in {j \in 1 .. Len(pairs) : pairs[j][1] = u}}
        others(u) == Ascending((1 .. Len(ts)) \ home_team(u))
    IN  {[stage |-> "team_memberships",
          picks |-> picks,
          home |-> [n \in 1 .. Len(pairs) |->
                        [lead_roll |-> IF n % 3 = 0 THEN 30 ELSE 29,
                         seconds |-> n * 3600]],
          cross |-> [k \in 1 .. CrossCount(Len(active)) |->
                        [user |-> active[k],
                         extra_teams |-> SubSeq(others(active[k]),
                                                Len(others(active[k])),
                                                Len(others(active[k]))),
                         seconds |-> <<k>>]]]}

\* the memberships stage of main
GenerateTeamMemberships(r) ==
    /\ run_pc[r] = "team_memberships"
    /\ \E draws \in MembershipsDraws(run_lists[r].teams, run_db[r].users) :
         LET rows == generate_team_memberships(run_lists[r].teams, run_db[r].users,
                                               run_entropy[r], run_uuids[r], draws)
         IN  InsertMany(r, "team_memberships", "projects", "team_memberships",
                        rows, draws, Len(rows))

----------------------------------------------------------------------------
(* generate_projects *)

\* team_leads[team_id] as the list the code builds: the leads in the order of
\* the memberships, or all members of the team when it has no lead
team_leads_list(team_id, mems) ==
    LET members == SelectSeq(mems, LAMBDA m : m.team_id = team_id)
        leads == SelectSeq(members, LAMBDA m : m.role = "lead")
        chosen == IF leads = << >> THEN members ELSE leads
    IN  [k \in 1 .. Len(chosen) |-> chosen[k].user_id]

\* senior_user_ids of rows that hold is_active as 0 or 1
senior_ids(us) ==
    {us[k].id : k \in {j \in 1 .. Len(us) : IsSenior(us[j]) /\ us[j].is_active # 0}}

\* possible_owners as the list random.choice draws from: the senior leads,
\* else the leads, else list(senior_user_ids), which is senior_order
possible_owners_list(team_id, mems, us, senior_order) ==
    LET leads == team_leads_list(team_id, mems)
        first == SelectSeq(leads, LAMBDA uid : uid \in senior_ids(us))
    IN  IF first # << >> THEN first
        ELSE IF leads # << >> THEN leads
        ELSE senior_order

\* owner_id: random.choice(possible_owners), or users[0]["id"]
owner_id_of(owners, us, owner_pick) ==
    IF owners # << >> THEN owners[owner_pick] ELSE us[1].id

\* e with 2^e <= a / b < 2^(e + 1), for a and b above 0
RECURSIVE FloorLog2(_, _)
FloorLog2(a, b) ==
    IF a >= 2 * b THEN FloorLog2(a, 2 * b) + 1
    ELSE IF a < b THEN FloorLog2(2 * a, b) - 1
    ELSE 0

\* 2^k, and 2^k modulo t
RECURSIVE Pow2(_)
Pow2(k) == IF k <= 0 THEN 1 ELSE 2 * Pow2(k - 1)
RECURSIVE Pow2Mod(_, _)
Pow2Mod(k, t) == IF k <= 0 THEN 1 % t ELSE (2 * Pow2Mod(k - 1, t)) % t

\* int(n * (s / t)) of integers n >= 0 and 0 <= s <= t, t > 0, as the floats
\* give it.  s / t is rounded to 53 bits, and the product is rounded again.
\* When t does not divide n * s the result is the integer part of n * s / t.
\* When it does, with k = n * s / t, and the quotient was rounded down by more
\* than half the distance from k to the float below k divided by n, the
\* product is that float and the result k - 1: r is the remainder of
\* s * 2^(52 - e) by t, the quotient having been rounded down when
\* 0 < 2 * r < t
IntOfShare(n, s, t) ==
    IF n = 0 \/ s = 0 THEN 0
    ELSE IF (n * s) % t # 0 THEN (n * s) \div t
    ELSE LET k == (n * s) \div t
             e == FloorLog2(s, t)
             r == (s * Pow2Mod(52 - e, t)) % t
             f == FloorLog2(k, 1)
             below == IF k = Pow2(f) THEN 4 ELSE 2
         IN  IF r # 0 /\ 2 * r < t /\ below * n * r > t * Pow2(f - e)
             THEN k - 1
             ELSE k

\* team_project_count of the t-th team: max(1, int(num_projects * team_weight))
\* with team_weight = team_sizes[id] / total_size
team_project_count(ts, mems, num_projects, t) ==
    LET team_sizes == [k \in 1 .. Len(ts) |-> Len(TeamMems(mems, ts[k].id))]
        total_size == IF Sum(team_sizes) = 0 THEN 1 ELSE Sum(team_sizes)
    IN  Max(1, IntOfShare(num_projects, team_sizes[t], total_size))

\* the team of every project made, as indices: the loop over the teams from
\* the t-th on, cut when num_projects are made; n are made so far
RECURSIVE TeamOfProjects(_, _, _, _, _)
TeamOfProjects(ts, mems, num_projects, t, n) ==
    IF t > Len(ts) \/ n >= num_projects THEN << >>
    ELSE LET made == Min(team_project_count(ts, mems, num_projects, t),
                         num_projects - n)
         IN  [i \in 1 .. made |-> t]
             \o TeamOfProjects(ts, mems, num_projects, t + 1, n + made)

\* random.choices(["active", "paused", "completed"], weights) for a project
\* older than 180 days and for a younger one, of a draw in percent points; the
\* running sums of the weights are the floats 0.2, 0.30000000000000004, 1.0
\* and 0.7, 0.7999999999999999, 1.0, so that a draw of 0.30 is still "paused"
StatusChoice(roll, old) ==
    IF old
    THEN IF roll < 20 THEN "active" ELSE IF roll <= 30 THEN "paused" ELSE "completed"
    ELSE IF roll < 70 THEN "active" ELSE IF roll < 80 THEN "paused" ELSE "completed"

\* one iteration of the inner loop of generate_projects; d are its draws and
\* owners the list possible_owners
ProjectOf(id, team, mems, us, sim_start, sim_end, owners, d) ==
    LET created_at == random_date_between(
                          Max(strptime(team.created_at), sim_start),
                          sim_end - 7 * Day, d.seconds)
        old == (sim_end - created_at) \div Day > 180
    IN  ProjectDatesOf(team, sim_start, sim_end, d.seconds, d.due_roll, d.pick, d.days)
        @@ [id |-> id,
            name |-> d.name,
            owner_id |-> owner_id_of(owners, us, d.owner_pick),
            archived |-> IF old /\ biased_boolean(d.archived_roll, 30) THEN 1 ELSE 0,
            status |-> StatusChoice(d.status_roll, old),
            department |-> team.department]

\* generate_projects; senior_order is list(senior_user_ids)
generate_projects(ts, mems, us, num_projects, sim_start, sim_end, entropy, made, senior_order, draws) ==
    LET of == TeamOfProjects(ts, mems, num_projects, 1, 0)
    IN  [k \in 1 .. Len(of) |->
            ProjectOf(uuid4_urandom(entropy, made + k), ts[of[k]], mems, us,
                      sim_start, sim_end,
                      possible_owners_list(ts[of[k]].id, mems, us, senior_order),
                      draws[k])]

\* the draws of the projects stage the runs take, project by project in turns:
\* the k-th project is created k - 1 hours after the start of the window and
\* owned by the first possible owner; every other one is due at the first
\* quarter end that follows; every fourth is archived; of three one is active,
\* one paused by a draw of 0.30 and one completed; the second project of an
\* Engineering team is a sprint
ProjectsDraws(ts, mems, num_projects) ==
    LET of == TeamOfProjects(ts, mems, num_projects, 1, 0)
    IN  {[stage |-> "projects",
          projects |-> [k \in 1 .. Len(of) |->
                [name |-> IF k = 2 /\ ts[of[k]].department = "Engineering"
                          THEN {"Sprint"} ELSE {},
                 seconds |-> (k - 1) * 3600, owner_pick |-> 1,
                 due_roll |-> IF k % 2 = 1 THEN 0 ELSE 60,
                 pick |-> 1, days |-> 30,
                 archived_roll |-> IF k % 4 = 0 THEN 29 ELSE 30,
                 status_roll |-> IF k % 3 = 1 THEN 0
                                 ELSE IF k % 3 = 2 THEN 30 ELSE 99]]]}

\* the projects stage of main
GenerateProjects(r) ==
    /\ run_pc[r] = "projects"
    /\ \E draws \in ProjectsDraws(run_lists[r].teams, run_db[r].team_memberships,
                                  run_plan.NUM_PROJECTS) :
       \E senior_order \in ReadOrders(senior_ids(run_db[r].users), 1) :
         LET rows == generate_projects(run_lists[r].teams, run_db[r].team_memberships,
                                       run_db[r].users, run_plan.NUM_PROJECTS,
                                       SIMULATION_START(run_now[r]), run_now[r],
                                       run_entropy[r], run_uuids[r], senior_order,
                                       draws.projects)
         IN  InsertMany(r, "projects", "sections", "projects",
                        rows, draws, Len(rows))

----------------------------------------------------------------------------
(* generate_sections *)

\* len(SECTION_TEMPLATES.get(dept, SECTION_TEMPLATES["default"]))
SectionCount(dept) ==
    IF dept \in {"Engineering", "Product", "Marketing", "Sales"} THEN 5
    ELSE IF dept \in {"Operations", "HR"} THEN 4
    ELSE 3

\* generate_sections with sections for a project that generate_projects never
\* made
generate_sections_unknown(ps, entropy, made, j) ==
    [i \in 1 .. Len(ps) |-> SectionOf(uuid4_urandom(entropy, made + i), 0, i - 1)]

\* generate_sections from the j-th project on: the sections of a project in
\* the order of the template, positions from 0
RECURSIVE generate_sections(_, _, _, _)
generate_sections(ps, entropy, made, j) ==
    IF j > Len(ps) THEN << >>
    ELSE [i \in 1 .. SectionCount(ps[j].department) |->
             SectionOf(uuid4_urandom(entropy, made + i), ps[j].id, i - 1)]
         \o generate_sections(ps, entropy, made + SectionCount(ps[j].department), j + 1)

\* the sections stage of main: no draw of the stream
GenerateSections(r) ==
    /\ run_pc[r] = "sections"
    /\ LET rows == generate_sections(run_lists[r].projects, run_entropy[r],
                                     run_uuids[r], 1)
       IN  InsertMany(r, "sections", "tasks", "sections", rows,
                      [stage |-> "sections"], Len(rows))

----------------------------------------------------------------------------
(* generate_tasks, generate_subtasks and generate_comments *)

\* active_user_ids of rows that hold is_active as 0 or 1
active_ids(us) == {us[k].id : k \in ActiveUsers(us)}

\* available_assignees of a project as the list random.choice draws from: the
\* active members of its team in the order of the memberships, or
\* list(active_user_ids)[:10], active_order being list(active_user_ids)
available_assignees(project, mems, us, active_order) ==
    LET members == SelectSeq(mems, LAMBDA m : m.team_id = project.team_id
                                            /\ m.user_id \in active_ids(us))
    IN  IF members # << >>
        THEN [k \in 1 .. Len(members) |-> members[k].user_id]
        ELSE SubSeq(active_order, 1, Min(10, Len(active_order)))

\* completion_rate of a project in percent points: random.uniform(0.80, 0.95)
\* for one that is completed or archived (rate_roll in 0 .. 15), else
\* completion_rate_for_project_type, random.uniform(0.70, 0.85) for a sprint
\* and random.uniform(0.40, 0.50) for ongoing work (rate_roll in 0 .. 10)
CompletionRate(project, rate_roll) ==
    IF project.status = "completed" \/ project.archived # 0 THEN 80 + rate_roll
    ELSE IF "Sprint" \in project.name THEN 70 + rate_roll
    ELSE 40 + rate_roll

\* the tasks of generate_tasks as <<project, position>>, projects as indices:
\* zip(projects, project_task_counts) without the projects that have no section
RECURSIVE TaskPlaces(_, _, _, _)
TaskPlaces(ps, section_list, counts, j) ==
    IF j > Len(ps) \/ j > Len(counts) THEN << >>
    ELSE (IF project_sections(section_list, ps[j].id) = << >> THEN << >>
          ELSE [i \in 1 .. counts[j] |-> <<j, i - 1>>])
         \o TaskPlaces(ps, section_list, counts, j + 1)

\* one iteration of `for i in range(task_count)`; d are its draws and
\* assignees the list available_assignees
TaskRowOf(project, proj_sections, assignees, now, i, id, rate_roll, d) ==
    LET task == TaskOf(project, now, i, id, d.first, d.redraws, d.adjust, d.hour,
                       d.minute, d.done_roll, CompletionRate(project, rate_roll),
                       d.cycle, d.back_hours, d.fwd_hours, d.due_roll, d.due_days)
        assignee_id == IF biased_boolean(d.unassigned_roll, 15) THEN None
                       ELSE assignees[d.assignee_pick]
        created_by_id == IF assignee_id # None /\ d.creator_roll < 70
                         THEN assignee_id
                         ELSE assignees[d.creator_pick]
    IN  task @@ [name |-> d.name,
                 section_id |-> task_section(proj_sections, task.completed # 0,
                                             d.section_pick).id,
                 assignee_id |-> assignee_id,
                 created_by_id |-> created_by_id]

\* project_task_counts after random.shuffle
TaskCounts(num_tasks, ps, draws) ==
    LET counts == distribute_among(num_tasks, Len(ps), 5, draws.picks)
    IN  [j \in 1 .. Len(counts) |-> counts[draws.shuffle[j]]]

\* generate_tasks; active_order is list(active_user_ids)
generate_tasks(ps, section_list, mems, us, num_tasks, now, entropy, made, active_order, draws) ==
    LET places == TaskPlaces(ps, section_list, TaskCounts(num_tasks, ps, draws), 1)
        assignees == Listed([j \in 1 .. Len(ps) |->
                        available_assignees(ps[j], mems, us, active_order)])
    IN  [k \in 1 .. Len(places) |->
            TaskRowOf(ps[places[k][1]],
                      project_sections(section_list, ps[places[k][1]].id),
                      assignees[places[k][1]],
                      now, places[k][2], uuid4_urandom(entropy, made + k),
                      draws.rates[places[k][1]], draws.tasks[k])]

\* the draws of the tasks stage the runs take: distribute_among hands the
\* units it draws for to the first projects in turn, and random.shuffle
\* reverses the counts; the completion rates are the least.  The k-th task is
\* created k - 1 hours after the start of the window.  The tasks take turns:
\* one is completed after a day, assigned to the first assignee and created by
\* them; the next is open in the first section, unassigned and created by the
\* last assignee; the one after it is assigned to the first assignee and
\* created by the last.  Of three tasks of an Engineering project the first
\* has "fix" in its name.
TasksDraws(ps, section_list, mems, us, num_tasks) ==
    LET units == Max(0, num_tasks - 5 * Len(ps))
        picks == IF Len(ps) = 0 \/ num_tasks < 5 * Len(ps) THEN << >>
                 ELSE [k \in 1 .. units |-> ((k - 1) % Len(ps)) + 1]
        shuffle == [j \in 1 .. Len(ps) |-> Len(ps) + 1 - j]
        counts == distribute_among(num_tasks, Len(ps), 5, picks)
        places == TaskPlaces(ps, section_list,
                             [j \in 1 .. Len(counts) |-> counts[shuffle[j]]], 1)
        last == Listed([j \in 1 .. Len(ps) |->
                    Len(available_assignees(ps[j], mems, us,
                                            Ascending(active_ids(us))))])
        common == [first |-> 0, redraws |-> << >>,
                   adjust |-> FALSE, hour |-> 9, minute |-> 0, cycle |-> Day,
                   back_hours |-> 1, fwd_hours |-> 1, due_roll |-> 15,
                   due_days |-> 1, section_pick |-> 1, assignee_pick |-> 1,
                   creator_pick |-> 1]
        done(k) == [done_roll |-> 0, unassigned_roll |-> 15,
                    creator_roll |-> IF k % 4 = 1 THEN 69 ELSE 70]
        open == [done_roll |-> 99, unassigned_roll |-> 14, creator_roll |-> 70]
    IN  {[stage |-> "tasks", picks |-> picks, shuffle |-> shuffle,
          rates |-> [j \in 1 .. Len(ps) |-> 0],
          tasks |-> Listed([k \in 1 .. Len(places) |->
                [name |-> IF k % 3 = 1 /\ ps[places[k][1]].department = "Engineering"
                          THEN {"fix"} ELSE {}]
                @@ [common EXCEPT !.first = (k - 1) * 3600,
                                  !.creator_pick = Max(1, last[places[k][1]])]
                @@ (IF k % 2 = 1 THEN done(k) ELSE open)])]}

\* whether random.choice(available_assignees) is reached with an empty list:
\* a project that gets a task has no active member and no user is active
NoAssignee(ps, section_list, num_tasks, mems, us, draws) ==
    LET places == TaskPlaces(ps, section_list, TaskCounts(num_tasks, ps, draws), 1)
    IN  \E k \in 1 .. Len(places) :
            available_assignees(ps[places[k][1]], mems, us,
                                Ascending(active_ids(us))) = << >>

\* the tasks stage of main: the rows are stored, or IndexError leaves main
GenerateTasks(r) ==
    /\ run_pc[r] = "tasks"
    /\ \E draws \in TasksDraws(run_lists[r].projects, run_db[r].sections,
                               run_db[r].team_memberships, run_db[r].users,
                               run_plan.NUM_TASKS) :
         IF NoAssignee(run_lists[r].projects, run_db[r].sections, run_plan.NUM_TASKS,
                       run_db[r].team_memberships, run_db[r].users, draws)
         THEN RaiseInRun(r, "tasks")
         ELSE \E active_order \in
                    ReadOrders(active_ids(run_db[r].users),
                               Min(10, Cardinality(active_ids(run_db[r].users)))) :
                LET rows == generate_tasks(run_lists[r].projects, run_db[r].sections,
                                           run_db[r].team_memberships,
                                           run_db[r].users, run_plan.NUM_TASKS,
                                           run_now[r], run_entropy[r],
                                           run_uuids[r], active_order, draws)
                IN  InsertMany(r, "tasks", "subtasks", "tasks", rows, draws,
                               Len(rows))

\* the subtasks of one parent; d are its draws: count_roll and count_pick of
\* subtask_count_for_task, and d.items[i] the draws of the i-th iteration
SubtasksOfParent(parent, now, entropy, made, d) ==
    [i \in 1 .. subtask_count_for_task(d.count_roll, d.count_pick) |->
        SubtaskOf(parent, now, i - 1, uuid4_urandom(entropy, made + i),
                  d.items[i].created_seconds, d.items[i].done_roll,
                  d.items[i].completed_seconds)
        @@ [section_id |-> parent.section_id,
            assignee_id |-> parent.assignee_id,
            created_by_id |-> parent.created_by_id]]

\* generate_subtasks from the n-th parent task on: parents are the indices of
\* the parent tasks, draws.select_rolls[n] the draw of biased_boolean for the
\* n-th of them and draws.parents[n] the draws for its subtasks
RECURSIVE SubtasksFrom(_, _, _, _, _, _, _)
SubtasksFrom(ts, parents, now, entropy, made, draws, n) ==
    IF n > Len(parents) THEN << >>
    ELSE LET rows == IF biased_boolean(draws.select_rolls[n], 25)
                     THEN SubtasksOfParent(ts[parents[n]], now, entropy, made,
                                           draws.parents[n])
                     ELSE << >>
         IN  rows \o SubtasksFrom(ts, parents, now, entropy, made + Len(rows),
                                  draws, n + 1)

generate_subtasks(ts, now, entropy, made, draws) ==
    SubtasksFrom(ts, Ascending(ParentTaskIndices(ts)), now, entropy, made, draws, 1)

\* the draws of the subtasks stage the runs take: of four parent tasks the
\* first gets subtasks and the others draw 0.25; the parents that get
\* subtasks take the counts 2 to 10 in turn, by the draws of CountRolls and
\* CountPicks that give them; a subtask is created i seconds into its window
\* and completed when the code lets a draw of 0, at every third position of
\* 0.50, decide, in the first second
SubtasksDraws(ts) ==
    LET parents == Ascending(ParentTaskIndices(ts))
        counts == <<[roll |-> 0, pick |-> 0], [roll |-> 0, pick |-> 99],
                    [roll |-> 50, pick |-> 0], [roll |-> 50, pick |-> 99],
                    [roll |-> 80, pick |-> 0], [roll |-> 80, pick |-> 20],
                    [roll |-> 80, pick |-> 40], [roll |-> 80, pick |-> 60],
                    [roll |-> 80, pick |-> 99]>>
        count(n) == counts[(((n - 1) \div 4) % Len(counts)) + 1]
    IN  {[stage |-> "subtasks",
          select_rolls |-> [n \in 1 .. Len(parents) |-> IF n % 4 = 1 THEN 24 ELSE 25],
          parents |-> [n \in 1 .. Len(parents) |->
                        IF n % 4 = 1
                        THEN [count_roll |-> count(n).roll,
                              count_pick |-> count(n).pick,
                              items |-> [i \in 1 .. subtask_count_for_task(
                                                        count(n).roll, count(n).pick) |->
                                [created_seconds |-> i,
                                 done_roll |-> IF i % 3 = 0 THEN 50 ELSE 0,
                                 completed_seconds |-> 0]]]
                        ELSE [count_roll |-> 0, count_pick |-> 0, items |-> << >>]]]}

\* the subtasks stage of main: the subtasks go to the table of the tasks
GenerateSubtasks(r) ==
    /\ run_pc[r] = "subtasks"
    /\ \E draws \in SubtasksDraws(run_db[r].tasks) :
         LET rows == generate_subtasks(run_db[r].tasks, run_now[r],
                                       run_entropy[r], run_uuids[r], draws)
         IN  InsertMany(r, "subtasks", "comments", "tasks", rows, draws, Len(rows))

\* generate_comment: the record of a comment
generate_comment(id, task_id, author_id, created_at) ==
    [id |-> id, task_id |-> task_id, author_id |-> author_id,
     created_at |-> format_timestamp(created_at)]

\* num_comments of a task whose draws are d
CommentCount(d) == comment_count_for_task(d.count_roll, d.count_pick)

\* the comments of one task; d.count_roll and d.count_pick are the draws of
\* comment_count_for_task, d.items the draws of its comments and d.sample the
\* result of random.sample(active_user_ids, ...) as indices into users
CommentsOfTask(task, us, now, entropy, made, d) ==
    LET potential_authors ==
            (IF task.assignee_id # None THEN <<task.assignee_id>> ELSE << >>)
            \o <<task.created_by_id>>
            \o [k \in 1 .. Len(d.sample) |-> us[d.sample[k]].id]
        task_created == strptime(task.created_at)
    IN  [i \in 1 .. CommentCount(d) |->
            generate_comment(
                uuid4_urandom(entropy, made + i), task.id,
                IF task.assignee_id # None /\ d.items[i].assignee_roll < 50
                THEN task.assignee_id
                ELSE potential_authors[d.items[i].author_pick],
                random_date_between(
                    task_created,
                    comment_window_end(task_created, TaskEnd(task, now), i - 1,
                                       CommentCount(d)),
                    d.items[i].seconds))]

\* how many comments the tasks before the t-th one got
CommentsBefore(draws, t) == Sum([k \in 1 .. t - 1 |-> CommentCount(draws[k])])

\* generate_comments: the comments of the tasks one after the other, the n-th
\* comment of all being a comment of task `of[n]`
generate_comments(ts, us, now, entropy, made, draws) ==
    LET before == Listed([t \in 1 .. Len(ts) + 1 |-> CommentsBefore(draws, t)])
        rows == Listed([t \in 1 .. Len(ts) |->
                    Listed(CommentsOfTask(ts[t], us, now, entropy, made + before[t],
                                          draws[t]))])
        of == [n \in 1 .. before[Len(ts) + 1] |->
                    CHOOSE t \in 1 .. Len(ts) : before[t] < n /\ n <= before[t + 1]]
    IN  [n \in 1 .. Len(of) |-> rows[of[n]][n - before[of[n]]]]

\* how many tasks draw the most comments when the plan asks for many: 41
\* times 25 comments are more than one batch of insert_many
ManyComments == 41

\* the draws of the comments stage the runs take.  The i-th comment of a task
\* is written i seconds into its window, the odd ones by the assignee if there
\* is one, the even ones by the last of the potential authors, the first
\* active users.  When the plan asks for few comments, the first and the last
\* task draw two comments and the others 0.0, which is none.  When it asks for
\* many, the first ManyComments tasks draw 25 comments and the tasks after
\* them the counts 0, 1, 3, 4, 10 and 17 in turn
CommentsDraws(ts, us, family) ==
    LET active == Ascending(ActiveUsers(us))
        sample == SubSeq(active, 1, Min(5, Len(active)))
        last(t) == (IF ts[t].assignee_id # None THEN 2 ELSE 1) + Len(sample)
        none == [roll |-> 0, pick |-> 0]
        counts == <<none, [roll |-> 30, pick |-> 0], [roll |-> 69, pick |-> 99],
                    [roll |-> 70, pick |-> 0], [roll |-> 89, pick |-> 99],
                    [roll |-> 90, pick |-> 45]>>
        count(t) == IF family = "many"
                    THEN IF t <= ManyComments THEN [roll |-> 99, pick |-> 99]
                         ELSE counts[((t - 1) % Len(counts)) + 1]
                    ELSE IF t = 1 \/ t = Len(ts) THEN [roll |-> 30, pick |-> 50]
                         ELSE none
    IN  {[stage |-> "comments",
          tasks |-> [t \in 1 .. Len(ts) |->
                        [count_roll |-> count(t).roll, count_pick |-> count(t).pick,
                         items |-> [i \in 1 .. comment_count_for_task(
                                                    count(t).roll, count(t).pick) |->
                                        [assignee_roll |-> IF i % 2 = 1 THEN 49 ELSE 50,
                                         author_pick |-> last(t), seconds |-> i]],
                         sample |-> IF comment_count_for_task(
                                            count(t).roll, count(t).pick) = 0
                                    THEN << >> ELSE sample]]]}

\* the comments stage of main, over tasks + subtasks
GenerateComments(r) ==
    /\ run_pc[r] = "comments"
    /\ \E draws \in CommentsDraws(run_db[r].tasks, run_db[r].users,
                                  run_plan.comments) :
         LET rows == generate_comments(run_db[r].tasks, run_db[r].users,
                                       run_now[r], run_entropy[r], run_uuids[r],
                                       draws.tasks)
         IN  InsertMany(r, "comments", "custom_field_definitions", "comments",
                        rows, draws, Len(rows))

----------------------------------------------------------------------------
(* custom fields and tags *)

\* len(FIELD_DEFINITIONS), and the names of PREDEFINED_TAGS in their order
FieldCount == Len(<<"Priority", "Effort", "Type", "Sprint", "Story Points">>)
TAG_NAMES ==
    <<"bug", "feature", "enhancement", "blocked", "needs-review", "p0", "p1",
      "tech-debt", "documentation", "security", "performance", "ux", "mobile",
      "api", "infrastructure", "testing", "breaking-change", "wontfix",
      "duplicate", "good-first-issue">>

\* generate_custom_field_definitions
generate_custom_field_definitions(organization_id, entropy, made) ==
    [k \in 1 .. FieldCount |->
        [id |-> uuid4_urandom(entropy, made + k), organization_id |-> organization_id]]

\* the custom field definitions stage of main: no draw of the stream
GenerateCustomFieldDefinitions(r) ==
    /\ run_pc[r] = "custom_field_definitions"
    /\ LET rows == generate_custom_field_definitions(run_db[r].organizations[1].id,
                                                     run_entropy[r], run_uuids[r])
       IN  InsertMany(r, "custom_field_definitions", "custom_field_values",
                      "custom_field_definitions", rows,
                      [stage |-> "custom_field_definitions"], Len(rows))

\* generate_custom_field_values: field by field, for every parent task that
\* random.random() > coverage_rate does not skip; draws[f][n] are the draws
\* for the f-th field and the n-th parent task, skip_roll in percent points
\* and value the position of the value drawn among those of the field
generate_custom_field_values(field_definitions, parent_tasks, entropy, made, draws) ==
    LET count == Len(parent_tasks)
        pairs == [n \in 1 .. Len(field_definitions) * count |->
                    <<((n - 1) \div count) + 1, ((n - 1) % count) + 1>>]
        kept == SelectSeq(pairs, LAMBDA x : ~(draws[x[1]][x[2]].skip_roll > 80))
    IN  [k \in 1 .. Len(kept) |->
            [id |-> uuid4_urandom(entropy, made + k),
             field_id |-> field_definitions[kept[k][1]].id,
             task_id |-> parent_tasks[kept[k][2]].id,
             value |-> draws[kept[k][1]][kept[k][2]].value]]

\* the parent tasks among the rows of the table of the tasks: the list `tasks`
\* main keeps
ParentTasksOfRun(r) ==
    SelectSeq(run_db[r].tasks, LAMBDA t : t.parent_task_id = None)

\* the draws of the custom field values stage the runs take: of three pairs
\* of a field and a task one is skipped by a draw of 0.81, one is kept by a
\* draw of 0.80 and one by a draw of 0; every value is the first of its field
FieldValuesDraws(fields, count) ==
    {[stage |-> "custom_field_values",
      values |-> [f \in 1 .. fields |->
                    [n \in 1 .. count |->
                        [skip_roll |-> IF (f + n) % 3 = 0 THEN 81
                                       ELSE IF (f + n) % 3 = 1 THEN 80 ELSE 0,
                         value |-> 1]]]]}

\* the custom field values stage of main
GenerateCustomFieldValues(r) ==
    /\ run_pc[r] = "custom_field_values"
    /\ \E draws \in FieldValuesDraws(Len(run_db[r].custom_field_definitions),
                                     Len(ParentTasksOfRun(r))) :
         LET rows == generate_custom_field_values(
                         run_db[r].custom_field_definitions, ParentTasksOfRun(r),
                         run_entropy[r], run_uuids[r], draws.values)
         IN  InsertMany(r, "custom_field_values", "tags", "custom_field_values",
                        rows, draws, Len(rows))

\* generate_tags
generate_tags(organization_id, entropy, made) ==
    [k \in 1 .. Len(TAG_NAMES) |->
        [id |-> uuid4_urandom(entropy, made + k),
         organization_id |-> organization_id,
         name |-> TAG_NAMES[k]]]

\* the tags stage of main: no draw of the stream
GenerateTags(r) ==
    /\ run_pc[r] = "tags"
    /\ LET rows == generate_tags(run_db[r].organizations[1].id, run_entropy[r],
                                 run_uuids[r])
       IN  InsertMany(r, "tags", "task_tags", "tags", rows,
                      [stage |-> "tags"], Len(rows))

\* assigned_tags of a task that biased_boolean(tag_rate) lets through; d are
\* the draws for the task, d.additional the result of random.sample(tags, ...)
\* as indices into tags
AssignedTagsOf(task, tags, d) ==
    AssignedTags(MatchedTags(tags, task.name),
                 IF d.extra_roll < 30
                 THEN [k \in 1 .. Len(d.additional) |-> tags[d.additional[k]].id]
                 ELSE << >>)

\* generate_task_tags from the n-th parent task on; orders[n] is the order in
\* which `for tag_id in assigned_tags` iterates the set of the n-th task
RECURSIVE generate_task_tags(_, _, _, _, _)
generate_task_tags(parent_tasks, tags, draws, orders, n) ==
    IF n > Len(parent_tasks) THEN << >>
    ELSE (IF biased_boolean(draws[n].tag_roll, 40)
          THEN TaskTagRows(parent_tasks[n].id,
                           MatchedTags(tags, parent_tasks[n].name),
                           IF draws[n].extra_roll < 30
                           THEN [k \in 1 .. Len(draws[n].additional) |->
                                    tags[draws[n].additional[k]].id]
                           ELSE << >>,
                           orders[n])
          ELSE << >>)
         \o generate_task_tags(parent_tasks, tags, draws, orders, n + 1)

\* the orders in which the sets assigned_tags can be iterated, from the n-th
\* parent task on
RECURSIVE TagOrdersFrom(_, _, _, _)
TagOrdersFrom(parent_tasks, tags, draws, n) ==
    IF n > Len(parent_tasks) THEN {<< >>}
    ELSE {<<order>> \o rest :
            order \in SetOrders(AssignedTagsOf(parent_tasks[n], tags, draws[n])),
            rest \in TagOrdersFrom(parent_tasks, tags, draws, n + 1)}

TagOrders(parent_tasks, tags, draws) == TagOrdersFrom(parent_tasks, tags, draws, 1)

\* the draws of the task tags stage the runs take: every other task draws
\* 0.39 and is tagged, the others draw 0.40; the first task gets one
\* additional tag by a draw of 0.29, the third of the list, the others draw
\* 0.30
TaskTagsDraws(count) ==
    {[stage |-> "task_tags",
      tasks |-> [n \in 1 .. count |->
                    [tag_roll |-> IF n % 2 = 1 THEN 39 ELSE 40,
                     extra_roll |-> IF n = 1 THEN 29 ELSE 30,
                     additional |-> IF n = 1 THEN <<3>> ELSE << >>]]]}

\* the task tags stage of main, the last one: db.close() follows
GenerateTaskTags(r) ==
    /\ run_pc[r] = "task_tags"
    /\ \E draws \in TaskTagsDraws(Len(ParentTasksOfRun(r))) :
       \E orders \in TagOrders(ParentTasksOfRun(r), run_db[r].tags, draws.tasks) :
         InsertMany(r, "task_tags", "done", "task_tags",
                    generate_task_tags(ParentTasksOfRun(r), run_db[r].tags,
                                       draws.tasks, orders, 1),
                    draws, 0)

----------------------------------------------------------------------------
(* The runs *)

InitRuns == IdleTasks /\ IdleDue /\ IdleMem /\ IdleCall /\ run_plan \in RunPlans /\ NoRun

NextRuns ==
    \E r \in Runs :
        /\ \/ StartRun(r)
           \/ SeedRandom(r)
           \/ GenerateOrganizations(r)
           \/ GenerateTeams(r)
           \/ GenerateUsers(r)
           \/ GenerateTeamMemberships(r)
           \/ GenerateProjects(r)
           \/ GenerateSections(r)
           \/ GenerateTasks(r)
           \/ GenerateSubtasks(r)
           \/ GenerateComments(r)
           \/ GenerateCustomFieldDefinitions(r)
           \/ GenerateCustomFieldValues(r)
           \/ GenerateTags(r)
           \/ GenerateTaskTags(r)
        /\ UNCHANGED <<varsTasks, varsDue, varsMem, varsCall>>

SpecRuns == InitRuns /\ [][NextRuns]_vars

\* C1: two runs of main with the same configuration and the same RANDOM_SEED
\* fill their databases with the same rows: once both runs have finished, every
\* table holds the same records in both.
C1_SameSeedSameDatabase ==
    (\A r \in Runs : run_pc[r] = "done") => run_db[1] = run_db[2]

\* the stages of main in the order of the claim, and the end of the run
StageOrder ==
    <<"organizations", "teams", "users", "team_memberships", "projects",
      "sections", "tasks", "subtasks", "comments", "custom_field_definitions",
      "custom_field_values", "tags", "task_tags", "done">>

\* the rows of run r handed to persistence by a stage
StageRows(r, stage) ==
    IF stage = "tasks"
    THEN SelectSeq(run_db[r].tasks, LAMBDA t : t.parent_task_id = None)
    ELSE IF stage = "subtasks"
    THEN SelectSeq(run_db[r].tasks, LAMBDA t : t.parent_task_id # None)
    ELSE run_db[r][stage]

\* the foreign keys of the records: <<stage, field, stages that handed over
\* the referenced records>>; the comments are made for tasks + subtasks
ForeignKeys ==
    {<<"teams", "organization_id", {"organizations"}>>,
     <<"team_memberships", "team_id", {"teams"}>>,
     <<"team_memberships", "user_id", {"users"}>>,
     <<"projects", "team_id", {"teams"}>>,
     <<"projects", "owner_id", {"users"}>>,
     <<"sections", "project_id", {"projects"}>>,
     <<"tasks", "project_id", {"projects"}>>,
     <<"tasks", "section_id", {"sections"}>>,
     <<"tasks", "assignee_id", {"users"}>>,
     <<"tasks", "created_by_id", {"users"}>>,
     <<"subtasks", "project_id", {"projects"}>>,
     <<"subtasks", "section_id", {"sections"}>>,
     <<"subtasks", "assignee_id", {"users"}>>,
     <<"subtasks", "created_by_id", {"users"}>>,
     <<"subtasks", "parent_task_id", {"tasks"}>>,
     <<"comments", "task_id", {"tasks", "subtasks"}>>,
     <<"comments", "author_id", {"users"}>>,
     <<"custom_field_definitions", "organization_id", {"organizations"}>>,
     <<"custom_field_values", "field_id", {"custom_field_definitions"}>>,
     <<"custom_field_values", "task_id", {"tasks"}>>,
     <<"tags", "organization_id", {"organizations"}>>,
     <<"task_tags", "task_id", {"tasks"}>>,
     <<"task_tags", "tag_id", {"tags"}>>}

\* every foreign key points from a stage to stages before it
KeysPointBack ==
    \A fk \in ForeignKeys : \A target \in fk[3] :
        \E j, k \in 1 .. Len(StageOrder) :
            j < k /\ StageOrder[k] = fk[1] /\ StageOrder[j] = target

\* the foreign keys of the rows run r has handed over are ids of rows handed
\* over by a stage they point to
KeysResolve(r) ==
    \A fk \in ForeignKeys :
        LET rows == StageRows(r, fk[1])
            ids == UNION {{StageRows(r, target)[n].id :
                                n \in 1 .. Len(StageRows(r, target))} :
                          target \in fk[3]}
        IN  \A i \in 1 .. Len(rows) :
                rows[i][fk[2]] # None => rows[i][fk[2]] \in ids

\* C26: main runs the stages strictly in the order organization, teams, users,
\* team memberships, projects, sections, tasks, subtasks, comments, custom
\* field definitions, custom field values, tags, task tags, each finishing
\* before the next starts: a run in stage k has handed over no row of stage k
\* or of a later stage, and a step of a run leaves a stage only for the next
\* one.  Every foreign-key value of a record handed to persistence is the id
\* of a record of an earlier stage that was handed over before.
C26_StagesInOrderAndKeysResolve ==
    /\ [](\A r \in Runs :
            /\ \A k \in 1 .. Len(StageOrder) - 1 :
                    run_pc[r] = StageOrder[k] =>
                        \A j \in k .. Len(StageOrder) - 1 :
                            StageRows(r, StageOrder[j]) = << >>
            /\ KeysPointBack
            /\ KeysResolve(r))
    /\ [][\A r \in Runs : \A k \in 1 .. Len(StageOrder) - 1 :
            (run_pc[r] = StageOrder[k] /\ run_pc'[r] # run_pc[r])
                => run_pc'[r] \in {StageOrder[k + 1], "raised"}]_vars

\* C26 witness: a run at the larger scale has ended with a row of every
\* stage; more than ten users are active, and a task of a project whose team
\* has no active member is assigned to one user and created by another
C26_Witness ==
    \E r \in Runs :
        /\ run_pc[r] = "done"
        /\ run_plan.NUM_USERS = ManyUsers
        /\ \A k \in 1 .. Len(StageOrder) - 1 : StageRows(r, StageOrder[k]) # << >>
        /\ Cardinality(active_ids(run_db[r].users)) > 10
        /\ \E i \in 1 .. Len(run_db[r].tasks), j \in 1 .. Len(run_lists[r].projects) :
                /\ run_db[r].tasks[i].project_id = run_lists[r].projects[j].id
                /\ \A m \in 1 .. Len(run_db[r].team_memberships) :
                        run_db[r].team_memberships[m].team_id
                            = run_lists[r].projects[j].team_id
                        => run_db[r].team_memberships[m].user_id
                            \notin active_ids(run_db[r].users)
                /\ run_db[r].tasks[i].assignee_id # None
                /\ run_db[r].tasks[i].created_by_id # run_db[r].tasks[i].assignee_id

====
